---------------------------- MODULE Spec2Model ----------------------------
(***************************************************************************)
(* Verification model of the video-pipeline repository.                    *)
(*                                                                         *)
(*   SegmentGrouper     TranscriptionLoaderService.                        *)
(*                      _convert_word_segments_to_audio_segments           *)
(*                      (modules/chunking-module/src/services/             *)
(*                       transcription_loader_service.py)                  *)
(*   MetadataSanitizer  sanitize_metadata                                  *)
(*                      (modules/transcribe-module/src/utils/              *)
(*                       metadata_utils.py)                                *)
(*                                                                         *)
(* Strings are sequences of one-character strings.  Numbers are fixed      *)
(* point: a float x is the integer x * FracScale, and the numerals of the  *)
(* model carry at most two fractional digits, so the representation is     *)
(* exact.  A segment's confidence, a quotient, is kept as the pair         *)
(* (sum, count).                                                           *)
(***************************************************************************)
EXTENDS Integers, Sequences, FiniteSets, TLC

VARIABLES
    \* ---- SegmentGrouper ----
    input_segments,     \* the word_segments argument as passed by the caller
    word_segments,      \* the local word_segments (rebound by sorted())
    sort_warning,       \* logger.warning("Could not sort ...") was issued
    audio_segments,     \* the result list being built
    groups,             \* history: current_segment as it was at each append
    current_segment,
    current_text,
    idx,                \* position of the for loop in word_segments
    grouper_pc,         \* "call" | "loop" | "done" | "raised"
    grouper_err,        \* exception type that left the function, or "none"
    \* ---- MetadataSanitizer ----
    metadata,           \* the argument: NoMetadata or a list of (key, value)
    sanitized,          \* the result dict, as a list of (key, value)
    key_idx,            \* position of the for loop in metadata.items()
    sanitize_pc,        \* "call" | "loop" | "done"
    \* ---- TranscriptionService._wait_for_transcription ----
    max_attempts,       \* the argument
    attempt,            \* the local counter
    status,             \* TranscriptionJobStatus of the last response
    polls,              \* history: what each get_transcription_job gave
    sleeps,             \* history: number of time.sleep(delay_seconds)
    wait_pc,            \* "idle" | "loop" | "returned" | "raised"
    wait_outcome,       \* what was returned or raised, NoOutcome before
    \* ---- embedding_handler.lambda_handler ----
    openai_service,     \* the global _openai_service: "None" | "ready"
    pinecone_service,   \* the global _pinecone_service: "None" | "ready"
    event_records,      \* event.get('Records', [])
    record_idx,         \* position of the for loop in the records
    chunk_id,           \* the local chunk_id, "unbound" before it is assigned
    processed_records,  \* the list being built
    service_calls,      \* history: the calls made to the two services
    response,           \* the dict returned, NoResponse before
    embedding_pc,        \* "idle" | "openai" | "pinecone" | "record" |
                        \* "embed" | "upsert" | "done"
    \* ---- chunking_handler.generate_chunk_hash ----
    hash_original_file, \* the argument original_file
    hash_segment_id,    \* the argument segment_id
    hash_results,       \* history: what each call returned or raised
    hash_pc,             \* "idle" | "call" | "done"
    \* ---- chunking_handler.lambda_handler and send_to_sqs ----
    chunk_event,        \* the event of lambda_handler, NoEvent for a direct
                        \* call of send_to_sqs
    s3_object,          \* what S3 holds under the key of the event
    s3_reads,           \* history: the number of get_object calls
    sqs_queue_env,      \* whether SQS_QUEUE_URL is set in the environment
    sqs_fails_at,       \* the position whose send_message raises, 0 for none
    send_args,          \* the arguments of send_to_sqs, NoSendArgs before
    send_idx,           \* position of the for loop in audio_segments
    sent_count,         \* the local sent_count
    sqs_messages,       \* history: the message bodies the queue received
    send_outcome,       \* what send_to_sqs returned or raised
    chunking_response,  \* the dict lambda_handler returned
    chunking_pc,         \* "idle" | "handler" | "send" | "loop" | "sent" |
                        \* "done"
    \* ---- transcribe_handler.lambda_handler ----
    transcribe_event,   \* the event of the handler
    source_metadata,    \* the metadata S3 holds for the source object,
                        \* Missing when it holds none
    media_fails,        \* whether process_media raises
    metadata_reads,     \* history: the calls of get_object_metadata
    transcribe_response, \* the dict the handler returned
    transcribe_pc,       \* "idle" | "handler" | "process" | "done"
    \* ---- question_handler.lambda_handler ----
    question_event,     \* the event: the x-api-key header and the body
    expected_api_key,   \* what get_api_key() gives, None when it has none
    email_authorized,   \* what is_authorized gives for the email
    ai_keys_available,  \* whether the two service keys can be retrieved
    openai_fails,       \* whether embeddings.create raises
    pinecone_fails,     \* whether Index or query raises
    question_calls,     \* history: the checks and service calls made
    question_response,  \* the response returned
    question_pc,         \* "idle" | "key" | "parse" | "auth" | "setup" |
                        \* "embed" | "query" | "done"
    \* ---- auth_util.AuthUtil ----
    auth_emails,        \* self._authorized_emails
    auth_last_refresh,  \* self._last_refresh, NeverRefreshed for None
    auth_now,           \* the clock, in seconds
    auth_loaded_rows,   \* history: the rows of the last load that succeeded
    auth_attempts,      \* history: the number of loads attempted
    auth_last_check,    \* history: the last is_authorized call
    auth_checks,        \* history: the number of is_authorized calls
    auth_pc,             \* "idle" | "ready"
    \* ---- secrets.SecretsService ----
    secrets_cache,      \* _SECRETS_CACHE: each key to its value or Missing
    secrets_loaded,     \* _SECRETS_LOADED
    use_env_fallback,   \* self._use_env_fallback
    secrets_env,        \* os.environ: each name to its value or Missing
    sm_calls,           \* history: the number of get_secret_value calls
    loaded_since,       \* history: a load has succeeded and the cache has
                        \* not been invalidated since
    secret_last,        \* history: the last get_secret call
    secret_ops,         \* history: the number of calls made
    secrets_pc          \* "idle" | "ready"

grouper_vars == <<input_segments, word_segments, sort_warning, audio_segments,
                  groups, current_segment, current_text, idx, grouper_pc,
                  grouper_err>>
sanitize_vars == <<metadata, sanitized, key_idx, sanitize_pc>>
wait_vars == <<max_attempts, attempt, status, polls, sleeps, wait_pc,
               wait_outcome>>
embedding_vars == <<openai_service, pinecone_service, event_records,
                    record_idx, chunk_id, processed_records, service_calls,
                    response, embedding_pc>>
hash_vars == <<hash_original_file, hash_segment_id, hash_results, hash_pc>>
chunking_vars ==
    <<chunk_event, s3_object, s3_reads, sqs_queue_env, sqs_fails_at, send_args,
      send_idx, sent_count, sqs_messages, send_outcome, chunking_response,
      chunking_pc>>
transcribe_vars ==
    <<transcribe_event, source_metadata, media_fails, metadata_reads,
      transcribe_response, transcribe_pc>>
question_vars ==
    <<question_event, expected_api_key, email_authorized, ai_keys_available,
      openai_fails, pinecone_fails, question_calls, question_response,
      question_pc>>
auth_vars ==
    <<auth_emails, auth_last_refresh, auth_now, auth_loaded_rows,
      auth_attempts, auth_last_check, auth_checks, auth_pc>>
secrets_vars ==
    <<secrets_cache, secrets_loaded, use_env_fallback, secrets_env, sm_calls,
      loaded_since, secret_last, secret_ops, secrets_pc>>
vars == <<grouper_vars, sanitize_vars, wait_vars, embedding_vars,
         hash_vars,
         chunking_vars,
         transcribe_vars,
         question_vars,
         auth_vars,
         secrets_vars>>

----------------------------------------------------------------------------
(* Bounds of the model.                                                    *)

MaxShort == 2        \* item lists of every shape up to this length
MaxLen == 12         \* patterned item lists up to this length
MaxKeys == 3         \* metadata maps with up to this many keys
MaxFrag == 2         \* metadata values of up to this many text fragments
MaxAttempts == 4     \* _wait_for_transcription with max_attempts up to this
MaxRecords == 3      \* events with up to this many records
MaxSegmentId == 3    \* segment ids up to this
MaxHashCalls == 3    \* generate_chunk_hash called this many times in a row
MaxSegments == 3     \* send_to_sqs with up to this many audio segments
MaxClock == 700      \* the clock of AuthUtil runs up to this many seconds
MaxChecks == 3       \* is_authorized called up to this many times
MaxSecretOps == 4    \* get_secret and invalidate_cache called this often

----------------------------------------------------------------------------
(* Python values.  A dict field holds a value or is absent (Missing).      *)

FracScale == 10 * 10

Str(s) == [t |-> "str", s |-> s, n |-> 0]
Num(n) == [t |-> "num", s |-> <<>>, n |-> n]
PyNone == [t |-> "none", s |-> <<>>, n |-> 0]
Missing == [t |-> "missing", s |-> <<>>, n |-> 0]

DigitChars == <<"0", "1", "2", "3", "4", "5", "6", "7", "8", "9">>
IsDigit(c) == \E d \in 1..10 : DigitChars[d] = c
DigitVal(c) == (CHOOSE d \in 1..10 : DigitChars[d] = c) - 1

RECURSIVE Numeral(_)
Numeral(n) ==
    IF n < 10 THEN <<DigitChars[n + 1]>>
    ELSE Numeral(n \div 10) \o <<DigitChars[(n % 10) + 1]>>

RECURSIVE DigitsVal(_)
DigitsVal(s) ==
    IF s = <<>> THEN 0
    ELSE 10 * DigitsVal(SubSeq(s, 1, Len(s) - 1)) + DigitVal(s[Len(s)])

AllDigits(s) == \A i \in 1..Len(s) : IsDigit(s[i])

\* Position of the first "." of s, or Len(s) + 1.
DotPos(s) ==
    IF \E i \in 1..Len(s) : s[i] = "."
    THEN CHOOSE i \in 1..Len(s) : s[i] = "." /\ \A j \in 1..(i - 1) : s[j] # "."
    ELSE Len(s) + 1

\* Fraction digits as hundredths: "5" -> 50, "62" -> 62, "" -> 0.
FracVal(f) ==
    IF Len(f) = 0 THEN 0
    ELSE IF Len(f) = 1 THEN 10 * DigitVal(f[1])
    ELSE 10 * DigitVal(f[1]) + DigitVal(f[2])

Ok(v) == [ok |-> TRUE, val |-> v, err |-> "none"]
Raise(e) == [ok |-> FALSE, val |-> 0, err |-> e]

\* float(str): an unsigned decimal numeral, digits on at least one side of
\* an optional point; anything else is a ValueError.
ParseFloat(s) ==
    LET dot == DotPos(s)
        int == SubSeq(s, 1, dot - 1)
        frac == SubSeq(s, dot + 1, Len(s))
    IN IF AllDigits(int) /\ AllDigits(frac) /\ Len(int) + Len(frac) >= 1
       THEN Ok(DigitsVal(int) * FracScale + FracVal(frac))
       ELSE Raise("ValueError")

\* float(v) of Python: a number is itself, a string is parsed, None is a
\* TypeError.
Float(v) ==
    IF v.t = "num" THEN Ok(v.n)
    ELSE IF v.t = "str" THEN ParseFloat(v.s)
    ELSE Raise("TypeError")

\* dict.get(field, default)
Get(d, field, default) == IF d[field].t = "missing" THEN default ELSE d[field]

----------------------------------------------------------------------------
(* SegmentGrouper: helpers of _convert_word_segments_to_audio_segments.    *)

MaxGroupSize == 10

SentenceEnd == {".", "!", "?"}

\* Variant: only the full stop ends a sentence.
EndsSentence_StopOnly(text) == Len(text) > 0 /\ text[Len(text)] = "."

\* str.endswith(('.', '!', '?'))
EndsSentence(text) == Len(text) > 0 /\ text[Len(text)] \in SentenceEnd

\* word.get('text', word.get('content', ''))
WordText(word) == Get(word, "text", Get(word, "content", Str(<<>>))).s

\* key=lambda x: float(x.get('start_time', 0))
SortKey(word) == Float(Get(word, "start_time", Num(0)))

\* Variant: w goes in front of the elements with an equal key.
RECURSIVE InsertByStart_BeforeEqual(_, _)
InsertByStart_BeforeEqual(sorted_list, w) ==
    IF sorted_list = <<>> THEN <<w>>
    ELSE IF SortKey(w).val <= SortKey(Head(sorted_list)).val
         THEN <<w>> \o sorted_list
         ELSE <<Head(sorted_list)>> \o InsertByStart_BeforeEqual(Tail(sorted_list), w)

\* Insert w behind every element whose key is not greater: the position a
\* stable sort gives to an element that arrives after those of sorted_list.
RECURSIVE InsertByStart(_, _)
InsertByStart(sorted_list, w) ==
    IF sorted_list = <<>> THEN <<w>>
    ELSE IF SortKey(w).val < SortKey(Head(sorted_list)).val
         THEN <<w>> \o sorted_list
         ELSE <<Head(sorted_list)>> \o InsertByStart(Tail(sorted_list), w)

\* Variant: the items are left in the order in which they came.
SortedByStart_InputOrder(ws) == ws

RECURSIVE SortedByStart(_)
SortedByStart(ws) ==
    IF ws = <<>> THEN <<>>
    ELSE InsertByStart(SortedByStart(SubSeq(ws, 1, Len(ws) - 1)), ws[Len(ws)])

\* sorted() raises what the first failing key computation raises.
SortRaises(ws) == \E i \in 1..Len(ws) : ~SortKey(ws[i]).ok

\* ' '.join(current_text)
RECURSIVE JoinSpace(_)
JoinSpace(texts) ==
    IF texts = <<>> THEN <<>>
    ELSE IF Len(texts) = 1 THEN texts[1]
    ELSE texts[1] \o <<" ">> \o JoinSpace(Tail(texts))

\* Variant: an absent confidence counts as 100 (a percentage).
WordConfidence_Percent(word) == Float(Get(word, "confidence", Num(100 * FracScale)))

\* float(word.get('confidence', 1.0))
WordConfidence(word) == Float(Get(word, "confidence", Num(FracScale)))

\* sum(float(word.get('confidence', 1.0)) for word in current_segment)
RECURSIVE SumConfidence(_)
SumConfidence(seg) ==
    IF seg = <<>> THEN Ok(0)
    ELSE LET first == WordConfidence(Head(seg))
             rest == SumConfidence(Tail(seg))
         IN IF ~first.ok THEN first
            ELSE IF ~rest.ok THEN rest
            ELSE Ok(first.val + rest.val)

\* Variant: the end time is taken from the first item.
SegEnd_OfFirst(seg) == Float(Get(seg[1], "end_time", Num(0)))

SegStart(seg) == Float(Get(seg[1], "start_time", Num(0)))
SegEnd(seg) == Float(Get(seg[Len(seg)], "end_time", Num(0)))

\* The dict appended to audio_segments for a non-empty current_segment, or
\* the exception of the first float() that fails, in evaluation order.
MakeSegment(seg, texts) ==
    IF ~SegStart(seg).ok THEN Raise(SegStart(seg).err)
    ELSE IF ~SegEnd(seg).ok THEN Raise(SegEnd(seg).err)
    ELSE IF ~SumConfidence(seg).ok THEN Raise(SumConfidence(seg).err)
    ELSE Ok([start_time |-> SegStart(seg).val,
             end_time   |-> SegEnd(seg).val,
             text       |-> JoinSpace(texts),
             transcript |-> JoinSpace(texts),
             confidence |-> [sum |-> SumConfidence(seg).val,
                             count |-> Len(seg)]])

\* Variant: the size test is strict, a group closes with its 11th item.
ClosesSegment_Strict(seg, word_text) ==
    Len(seg) > MaxGroupSize \/ EndsSentence(word_text)

\* Variant: a group closes at 5 items.
ClosesSegment_AtFive(seg, word_text) ==
    Len(seg) >= 5 \/ EndsSentence(word_text)

\* if len(current_segment) >= 10 or word_text.endswith(('.', '!', '?'))
ClosesSegment(seg, word_text) ==
    Len(seg) >= MaxGroupSize \/ EndsSentence(word_text)


----------------------------------------------------------------------------
(* Word items.  type is informational; text, content, start_time, end_time *)
(* and confidence are dict fields that may be absent.                      *)

W(type, text, content, st, et, cf) ==
    [type |-> type, text |-> text, content |-> content,
     start_time |-> st, end_time |-> et, confidence |-> cf]

\* Items in the shapes the pipeline produces: content and decimal strings
\* (transcribe module), text and floats (hand-written transcriptions),
\* punctuation items whose times are None.
WordA ==
    W("pronunciation", Missing, Str(<<"a">>),
      Str(<<"0", ".", "0">>), Str(<<"0", ".", "6", "2">>), Str(<<"0", ".", "9">>))
WordOk ==
    W("pronunciation", Missing, Str(<<"o", "k", "?">>),
      Str(<<"1", ".", "5">>), Str(<<"2">>), Str(<<"1", ".", "0">>))
WordB ==
    W("pronunciation", Str(<<"b", ".">>), Missing, Num(100), Num(150), Missing)
Bang ==
    W("punctuation", Missing, Str(<<"!">>),
      Str(<<"0", ".", "6", "2">>), Str(<<"0", ".", "6", "2">>), Str(<<"0", ".", "0">>))
StopNoTimes ==
    W("punctuation", Missing, Str(<<".">>), PyNone, PyNone, Str(<<"0", ".", "0">>))
TextAndContent ==
    W("pronunciation", Str(<<"c">>), Str(<<"d", ".">>),
      Str(<<"3", ".", "0">>), Str(<<"3", ".", "5">>), Num(50))
NoText ==
    W("pronunciation", Missing, Missing,
      Str(<<"2", ".", "5">>), Str(<<"3">>), Str(<<"0", ".", "5">>))

\* Items with one numeric field absent, None or unparseable.
StartAbsent ==
    W("pronunciation", Missing, Str(<<"e">>),
      Missing, Str(<<"1", ".", "0">>), Str(<<"0", ".", "9">>))
StartBad ==
    W("pronunciation", Missing, Str(<<"f">>),
      Str(<<"a", "b", "c">>), Str(<<"1", ".", "0">>), Str(<<"0", ".", "9">>))
StartNone ==
    W("pronunciation", Missing, Str(<<"g">>),
      PyNone, Str(<<"1", ".", "0">>), Str(<<"0", ".", "9">>))
EndAbsent ==
    W("pronunciation", Missing, Str(<<"h">>),
      Str(<<"0", ".", "5">>), Missing, Str(<<"0", ".", "9">>))
EndBad ==
    W("pronunciation", Missing, Str(<<"i">>),
      Str(<<"0", ".", "5">>), Str(<<>>), Str(<<"0", ".", "9">>))
EndNone ==
    W("pronunciation", Missing, Str(<<"j">>),
      Str(<<"0", ".", "5">>), PyNone, Str(<<"0", ".", "9">>))
ConfNone ==
    W("pronunciation", Missing, Str(<<"k">>),
      Str(<<"0", ".", "5">>), Str(<<"1", ".", "0">>), PyNone)
ConfBad ==
    W("pronunciation", Missing, Str(<<"l">>),
      Str(<<"0", ".", "5">>), Str(<<"1", ".", "0">>), Str(<<"n", "/", "a">>))
ConfAboveOne ==
    W("pronunciation", Missing, Str(<<"m">>),
      Str(<<"0", ".", "5">>), Str(<<"1", ".", "0">>), Str(<<"1", ".", "5">>))

\* Items of a kind other than pronunciation and punctuation.
OtherKind ==
    W("speaker-change", Missing, Str(<<"n">>),
      Str(<<"0", ".", "2">>), Str(<<"0", ".", "3">>), Str(<<"0", ".", "4">>))
OtherKindStop ==
    W("speaker-change", Missing, Str(<<"o", ".">>),
      Str(<<"0", ".", "2">>), Str(<<"0", ".", "3">>), Str(<<"0", ".", "4">>))

ItemPool ==
    {WordA, WordOk, WordB, Bang, StopNoTimes, TextAndContent, NoText,
     StartAbsent, StartBad, StartNone, EndAbsent, EndBad, EndNone,
     ConfNone, ConfBad, ConfAboveOne, OtherKind, OtherKindStop}

\* The items placed into the patterned lists.
InsertPool ==
    {WordB, StopNoTimes, NoText, StartBad, EndNone, ConfBad, ConfAboveOne,
     OtherKind}

Orders == {"ascending", "descending", "ties"}
Periods == {0, 4, 11}

PatternStart(order, n, i) ==
    IF order = "ascending" THEN i
    ELSE IF order = "descending" THEN n - i
    ELSE i \div 3

\* The i-th word of a patterned list of n words: content "w<i>", closed by a
\* full stop at every period-th word, start <t>.0 and end <t>.5, confidence
\* "0.9" at odd positions and absent at even ones.
PatternWord(order, period, n, i) ==
    W("pronunciation", Missing,
      Str(<<"w">> \o Numeral(i)
          \o (IF period > 0 /\ i % period = 0 THEN <<".">> ELSE <<>>)),
      Str(Numeral(PatternStart(order, n, i)) \o <<".", "0">>),
      Str(Numeral(PatternStart(order, n, i)) \o <<".", "5">>),
      IF i % 2 = 1 THEN Str(<<"0", ".", "9">>) ELSE Missing)

\* A patterned list with the item sp at position p (p = 0: none).
PatternList(order, period, n, p, sp) ==
    [i \in 1..n |-> IF i = p THEN sp ELSE PatternWord(order, period, n, i)]

RECURSIVE SeqsUpTo(_, _)
SeqsUpTo(S, n) ==
    IF n = 0 THEN {<<>>}
    ELSE SeqsUpTo(S, n - 1)
         \cup {Append(q, x) : q \in {r \in SeqsUpTo(S, n - 1) : Len(r) = n - 1},
                              x \in S}

GrouperInputs ==
    SeqsUpTo(ItemPool, MaxShort)
    \cup {PatternList(order, period, n, p, sp) :
            order \in Orders, period \in Periods,
            n \in (MaxShort + 1)..MaxLen,
            p \in 0..MaxLen, sp \in InsertPool}

----------------------------------------------------------------------------
(* SegmentGrouper: the steps of _convert_word_segments_to_audio_segments.  *)

GrouperIdle ==
    /\ input_segments = <<>>
    /\ word_segments = <<>>
    /\ sort_warning = FALSE
    /\ audio_segments = <<>>
    /\ groups = <<>>
    /\ current_segment = <<>>
    /\ current_text = <<>>
    /\ idx = 1
    /\ grouper_pc = "idle"
    /\ grouper_err = "none"

GrouperCalled ==
    /\ input_segments \in GrouperInputs
    /\ word_segments = input_segments
    /\ sort_warning = FALSE
    /\ audio_segments = <<>>
    /\ groups = <<>>
    /\ current_segment = <<>>
    /\ current_text = <<>>
    /\ idx = 1
    /\ grouper_pc = "call"
    /\ grouper_err = "none"

\* if not word_segments: return []
ReturnEmpty ==
    /\ grouper_pc = "call"
    /\ word_segments = <<>>
    /\ grouper_pc' = "done"
    /\ UNCHANGED <<input_segments, word_segments, sort_warning, audio_segments,
                   groups, current_segment, current_text, idx, grouper_err>>

\* Variant: items of other kinds are filtered out before the sort.
SortSegments_KnownKindsOnly ==
    /\ grouper_pc = "call"
    /\ word_segments # <<>>
    /\ ~SortRaises(word_segments)
    /\ word_segments' =
          SortedByStart(SelectSeq(word_segments,
                                  LAMBDA w : w.type \in {"pronunciation", "punctuation"}))
    /\ grouper_pc' = "loop"
    /\ UNCHANGED <<input_segments, sort_warning, audio_segments, groups,
                   current_segment, current_text, idx, grouper_err>>

\* word_segments = sorted(word_segments, key=...)
SortSegments ==
    /\ grouper_pc = "call"
    /\ word_segments # <<>>
    /\ ~SortRaises(word_segments)
    /\ word_segments' = SortedByStart(word_segments)
    /\ grouper_pc' = "loop"
    /\ UNCHANGED <<input_segments, sort_warning, audio_segments, groups,
                   current_segment, current_text, idx, grouper_err>>

\* except (ValueError, TypeError): logger.warning(...)
SortSkipped ==
    /\ grouper_pc = "call"
    /\ word_segments # <<>>
    /\ SortRaises(word_segments)
    /\ sort_warning' = TRUE
    /\ grouper_pc' = "loop"
    /\ UNCHANGED <<input_segments, word_segments, audio_segments, groups,
                   current_segment, current_text, idx, grouper_err>>

\* One iteration of the for loop whose closing condition is false.
AppendWord ==
    /\ grouper_pc = "loop"
    /\ idx <= Len(word_segments)
    /\ LET word == word_segments[idx]
           seg == Append(current_segment, word)
       IN /\ ~ClosesSegment(seg, WordText(word))
          /\ current_segment' = seg
          /\ current_text' = Append(current_text, WordText(word))
    /\ idx' = idx + 1
    /\ UNCHANGED <<input_segments, word_segments, sort_warning, audio_segments,
                   groups, grouper_pc, grouper_err>>

\* One iteration whose closing condition is true: the segment is appended
\* and the working lists are reset.
CloseSegment ==
    /\ grouper_pc = "loop"
    /\ idx <= Len(word_segments)
    /\ LET word == word_segments[idx]
           seg == Append(current_segment, word)
           texts == Append(current_text, WordText(word))
       IN /\ ClosesSegment(seg, WordText(word))
          /\ MakeSegment(seg, texts).ok
          /\ audio_segments' = Append(audio_segments, MakeSegment(seg, texts).val)
          /\ groups' = Append(groups, seg)
    /\ current_segment' = <<>>
    /\ current_text' = <<>>
    /\ idx' = idx + 1
    /\ UNCHANGED <<input_segments, word_segments, sort_warning, grouper_pc,
                   grouper_err>>

\* One iteration whose closing condition is true and in which a float()
\* raises: the exception leaves the function.
CloseSegmentRaises ==
    /\ grouper_pc = "loop"
    /\ idx <= Len(word_segments)
    /\ LET word == word_segments[idx]
           seg == Append(current_segment, word)
           texts == Append(current_text, WordText(word))
       IN /\ ClosesSegment(seg, WordText(word))
          /\ ~MakeSegment(seg, texts).ok
          /\ current_segment' = seg
          /\ current_text' = texts
          /\ grouper_err' = MakeSegment(seg, texts).err
    /\ grouper_pc' = "raised"
    /\ UNCHANGED <<input_segments, word_segments, sort_warning, audio_segments,
                   groups, idx>>

\* Variant: the words left over after the loop are not emitted.
AddRemaining_DropsTail ==
    /\ grouper_pc = "loop"
    /\ idx > Len(word_segments)
    /\ current_segment # <<>>
    /\ grouper_pc' = "done"
    /\ UNCHANGED <<input_segments, word_segments, sort_warning, audio_segments,
                   groups, current_segment, current_text, idx, grouper_err>>

\* After the loop: "Add any remaining words", then return audio_segments.
AddRemaining ==
    /\ grouper_pc = "loop"
    /\ idx > Len(word_segments)
    /\ current_segment # <<>>
    /\ MakeSegment(current_segment, current_text).ok
    /\ audio_segments' =
          Append(audio_segments, MakeSegment(current_segment, current_text).val)
    /\ groups' = Append(groups, current_segment)
    /\ grouper_pc' = "done"
    /\ UNCHANGED <<input_segments, word_segments, sort_warning, current_segment,
                   current_text, idx, grouper_err>>

AddRemainingRaises ==
    /\ grouper_pc = "loop"
    /\ idx > Len(word_segments)
    /\ current_segment # <<>>
    /\ ~MakeSegment(current_segment, current_text).ok
    /\ grouper_err' = MakeSegment(current_segment, current_text).err
    /\ grouper_pc' = "raised"
    /\ UNCHANGED <<input_segments, word_segments, sort_warning, audio_segments,
                   groups, current_segment, current_text, idx>>

\* After the loop with nothing left over: return audio_segments.
ReturnSegments ==
    /\ grouper_pc = "loop"
    /\ idx > Len(word_segments)
    /\ current_segment = <<>>
    /\ grouper_pc' = "done"
    /\ UNCHANGED <<input_segments, word_segments, sort_warning, audio_segments,
                   groups, current_segment, current_text, idx, grouper_err>>

GrouperNext ==
    \/ ReturnEmpty
    \/ SortSegments
    \/ SortSkipped
    \/ AppendWord
    \/ CloseSegment
    \/ CloseSegmentRaises
    \/ AddRemaining
    \/ AddRemainingRaises
    \/ ReturnSegments

----------------------------------------------------------------------------
(* MetadataSanitizer: characters.  A character is a one-character string;  *)
(* the control characters without a TLA+ escape are named.                 *)

BEL == "\\x07"
DEL == "\\x7f"
NBSP == "\\xa0"
EAcute == "\\xe9"

LowerChars ==
    {"a", "b", "c", "d", "e", "f", "g", "h", "i", "j", "k", "l", "m",
     "n", "o", "p", "q", "r", "s", "t", "u", "v", "w", "x", "y", "z"}
UpperChars ==
    {"A", "B", "C", "D", "E", "F", "G", "H", "I", "J", "K", "L", "M",
     "N", "O", "P", "Q", "R", "S", "T", "U", "V", "W", "X", "Y", "Z"}
DigitSet == {"0", "1", "2", "3", "4", "5", "6", "7", "8", "9"}

\* [A-Za-z]
AsciiLetters == LowerChars \cup UpperChars
\* \w of a str pattern: Unicode alphanumerics and the underscore
WordChars == AsciiLetters \cup DigitSet \cup {"_", EAcute}
\* \s of a str pattern
SpaceChars == {" ", "\t", "\n", "\r", "\f", NBSP}
\* [\x00-\x1F\x7F\s]
ControlOrSpace == SpaceChars \cup {BEL, DEL}
\* Variant: "&", "/" and ":" are not among the allowed punctuation.
AllowedChars_NoProtected ==
    WordChars \cup SpaceChars
    \cup {"-", ".", ",", "!", "?", "(", ")", "'", "\"", "@"}

\* Variant: "@" is not among the allowed punctuation.
AllowedChars_NoAt ==
    WordChars \cup SpaceChars
    \cup {"-", ".", ",", "!", "?", "(", ")", "'", "\"", "&", "/", ":"}

\* [\w\s\-.,!?()\'\"&/:@]
AllowedChars ==
    WordChars \cup SpaceChars
    \cup {"-", ".", ",", "!", "?", "(", ")", "'", "\"", "&", "/", ":", "@"}

UpperOf(c) ==
    CASE c = "s" -> "S" [] c = "c" -> "C" [] c = "r" -> "R" [] c = "i" -> "I"
      [] c = "p" -> "P" [] c = "t" -> "T" [] c = "y" -> "Y" [] c = "l" -> "L"
      [] c = "e" -> "E" [] OTHER -> c

----------------------------------------------------------------------------
(* MetadataSanitizer: pattern.sub(replacement, value).                     *)

Min(S) == CHOOSE x \in S : \A y \in S : x <= y

\* Length of the longest run of characters of cls starting at i.
RunLen(s, i, cls) ==
    Min({j \in i..(Len(s) + 1) : j > Len(s) \/ s[j] \notin cls}) - i

\* Length of the longest run of characters outside cls starting at i.
RunLenNot(s, i, cls) ==
    Min({j \in i..(Len(s) + 1) : j > Len(s) \/ s[j] \in cls}) - i

\* s has the literal lit at position i; ic: ignoring the case of letters.
HasAt(s, i, lit, ic) ==
    /\ i >= 1
    /\ i + Len(lit) - 1 <= Len(s)
    /\ \A k \in 1..Len(lit) :
          \/ s[i + k - 1] = lit[k]
          \/ ic /\ s[i + k - 1] = UpperOf(lit[k])

\* First position >= from at which lit occurs in s, or 0.
Find(s, from, lit, ic) ==
    LET hits == {j \in from..Len(s) : HasAt(s, j, lit, ic)}
    IN IF hits = {} THEN 0 ELSE Min(hits)

\* \b between position i - 1 and i of s.
WordBoundary(s, i) ==
    LET before == i > 1 /\ i - 1 <= Len(s) /\ s[i - 1] \in WordChars
        after == i >= 1 /\ i <= Len(s) /\ s[i] \in WordChars
    IN before # after

\* re.sub for a pattern that matches no empty string: matchLen[i] is the
\* length of the match that starts at i (0: none).  The scan goes left to
\* right: the text up to the next position with a match is copied, the
\* match is replaced, and the scan resumes behind it.
RECURSIVE Rewrite(_, _, _, _)
Rewrite(s, matchLen, rep, i) ==
    LET starts == {j \in i..Len(s) : matchLen[j] > 0}
    IN IF starts = {} THEN SubSeq(s, i, Len(s))
       ELSE LET j == Min(starts)
            IN SubSeq(s, i, j - 1) \o rep
               \o Rewrite(s, matchLen, rep, j + matchLen[j])

Sub(s, matchLen, rep) == Rewrite(s, matchLen, rep, 1)

\* <tag\b[^>]*>.*?</tag>   (IGNORECASE | DOTALL)
BlockMatch(s, i, tag) ==
    LET open == <<"<">> \o tag
        close == <<"<", "/">> \o tag \o <<">">>
        gt == Find(s, i + Len(open), <<">">>, FALSE)
        end == IF gt = 0 THEN 0 ELSE Find(s, gt + 1, close, TRUE)
    IN IF /\ HasAt(s, i, open, TRUE)
          /\ WordBoundary(s, i + Len(open))
          /\ gt > 0
          /\ end > 0
       THEN end + Len(close) - i
       ELSE 0

\* <!--.*?-->   (DOTALL)
CommentMatch(s, i) ==
    LET end == Find(s, i + 4, <<"-", "-", ">">>, FALSE)
    IN IF HasAt(s, i, <<"<", "!", "-", "-">>, FALSE) /\ end > 0
       THEN end + 3 - i
       ELSE 0

\* <[^>]+>
TagMatch(s, i) ==
    LET gt == Find(s, i + 1, <<">">>, FALSE)
    IN IF s[i] = "<" /\ gt > i + 1 THEN gt + 1 - i ELSE 0

\* [cls]+
RunMatch(s, i, cls) == IF s[i] \in cls THEN RunLen(s, i, cls) ELSE 0

\* [^cls]+
RunNotMatch(s, i, cls) == IF s[i] \notin cls THEN RunLenNot(s, i, cls) ELSE 0

\* (?<=\d):(?=\d{2}\b)
TimeColonMatch(s, i) ==
    IF /\ s[i] = ":"
       /\ i > 1 /\ s[i - 1] \in DigitSet
       /\ i + 2 <= Len(s) /\ s[i + 1] \in DigitSet /\ s[i + 2] \in DigitSet
       /\ WordBoundary(s, i + 3)
    THEN 1 ELSE 0

\* (?<=[A-Za-z])/(?=[A-Za-z])
SlashMatch(s, i) ==
    IF /\ s[i] = "/"
       /\ i > 1 /\ s[i - 1] \in AsciiLetters
       /\ i < Len(s) /\ s[i + 1] \in AsciiLetters
    THEN 1 ELSE 0

\* &(?=\s|$)
AmpersandMatch(s, i) ==
    IF /\ s[i] = "&"
       /\ \/ i = Len(s)
          \/ s[i + 1] \in SpaceChars
          \/ i + 1 = Len(s) /\ s[i + 1] = "\n"
    THEN 1 ELSE 0

\* a literal
LiteralMatch(s, i, lit) == IF HasAt(s, i, lit, FALSE) THEN Len(lit) ELSE 0

\* (?<=\d)\s+(?=:)
SpaceBeforeColonMatch(s, i) ==
    LET n == RunLen(s, i, SpaceChars)
    IN IF /\ n > 0
          /\ i > 1 /\ s[i - 1] \in DigitSet
          /\ i + n <= Len(s) /\ s[i + n] = ":"
       THEN n ELSE 0

\* (?<=[AP])\s+(?=M\b)
MeridiemSpaceMatch(s, i) ==
    LET n == RunLen(s, i, SpaceChars)
    IN IF /\ n > 0
          /\ i > 1 /\ s[i - 1] \in {"A", "P"}
          /\ i + n <= Len(s) /\ s[i + n] = "M"
          /\ WordBoundary(s, i + n + 1)
       THEN n ELSE 0

\* \s*c\s*
SpacedCharMatch(s, i, c) ==
    LET n == RunLen(s, i, SpaceChars)
    IN IF i + n <= Len(s) /\ s[i + n] = c
       THEN n + 1 + RunLen(s, i + n + 1, SpaceChars)
       ELSE 0

Positions(s) == 1..Len(s)

TIMECOLON == <<"T", "I", "M", "E", "C", "O", "L", "O", "N">>
SLASH == <<"S", "L", "A", "S", "H">>
AMPERSAND == <<"A", "M", "P", "E", "R", "S", "A", "N", "D">>

\* Variant: the script pattern is missing from the list.
RemoveScript_Missing(s) == s

\* The patterns list, applied in order.
RemoveScript(s) ==
    Sub(s, [i \in Positions(s) |-> BlockMatch(s, i, <<"s", "c", "r", "i", "p", "t">>)], <<>>)
RemoveStyle(s) ==
    Sub(s, [i \in Positions(s) |-> BlockMatch(s, i, <<"s", "t", "y", "l", "e">>)], <<>>)
RemoveComments(s) == Sub(s, [i \in Positions(s) |-> CommentMatch(s, i)], <<>>)
RemoveTags(s) == Sub(s, [i \in Positions(s) |-> TagMatch(s, i)], <<" ">>)
CollapseControl(s) ==
    Sub(s, [i \in Positions(s) |-> RunMatch(s, i, ControlOrSpace)], <<" ">>)
ProtectTimeColon(s) == Sub(s, [i \in Positions(s) |-> TimeColonMatch(s, i)], TIMECOLON)
ProtectSlash(s) == Sub(s, [i \in Positions(s) |-> SlashMatch(s, i)], SLASH)
ProtectAmpersand(s) == Sub(s, [i \in Positions(s) |-> AmpersandMatch(s, i)], AMPERSAND)
StripSpecial(s) ==
    Sub(s, [i \in Positions(s) |-> RunNotMatch(s, i, AllowedChars)], <<" ">>)
RestoreTimeColon(s) == Sub(s, [i \in Positions(s) |-> LiteralMatch(s, i, TIMECOLON)], <<":">>)
\* Variant: the text of the slash marker is not restored.
RestoreSlash_Missing(s) == s

RestoreSlash(s) == Sub(s, [i \in Positions(s) |-> LiteralMatch(s, i, SLASH)], <<"/">>)
RestoreAmpersand(s) == Sub(s, [i \in Positions(s) |-> LiteralMatch(s, i, AMPERSAND)], <<"&">>)
FixTimeSpace(s) == Sub(s, [i \in Positions(s) |-> SpaceBeforeColonMatch(s, i)], <<>>)
FixMeridiem(s) == Sub(s, [i \in Positions(s) |-> MeridiemSpaceMatch(s, i)], <<>>)
\* Variant: the spaces around an ampersand are left as they are.
SpaceAmpersand_Missing(s) == s

SpaceAmpersand(s) ==
    Sub(s, [i \in Positions(s) |-> SpacedCharMatch(s, i, "&")], <<" ", "&", " ">>)
TightenSlash(s) == Sub(s, [i \in Positions(s) |-> SpacedCharMatch(s, i, "/")], <<"/">>)
CollapseSpace(s) == Sub(s, [i \in Positions(s) |-> RunMatch(s, i, SpaceChars)], <<" ">>)

\* for pattern, replacement in patterns: sanitized_value = pattern.sub(...)
\* Variant: the clean-up of the spacing runs before the markers are restored.
ApplyPatterns_CleanBeforeRestore(s) ==
    LET s1 == RemoveTags(RemoveComments(RemoveStyle(RemoveScript(s))))
        s2 == CollapseControl(s1)
        s3 == ProtectAmpersand(ProtectSlash(ProtectTimeColon(s2)))
        s4 == StripSpecial(s3)
        s5 == SpaceAmpersand(FixMeridiem(FixTimeSpace(s4)))
        s6 == RestoreAmpersand(RestoreSlash(RestoreTimeColon(s5)))
    IN CollapseSpace(TightenSlash(s6))

ApplyPatterns(s) ==
    LET s1 == RemoveTags(RemoveComments(RemoveStyle(RemoveScript(s))))
        s2 == CollapseControl(s1)
        s3 == ProtectAmpersand(ProtectSlash(ProtectTimeColon(s2)))
        s4 == StripSpecial(s3)
        s5 == RestoreAmpersand(RestoreSlash(RestoreTimeColon(s4)))
        s6 == SpaceAmpersand(FixMeridiem(FixTimeSpace(s5)))
    IN CollapseSpace(TightenSlash(s6))

\* str.strip()
Strip(s) ==
    LET inner == {i \in 1..Len(s) : s[i] \notin SpaceChars}
    IN IF inner = {} THEN <<>>
       ELSE SubSeq(s, Min(inner), CHOOSE i \in inner : \A j \in inner : j <= i)

MaxValueLen == 256
KeptLen == 253

\* Variant: a value of exactly 256 characters is cut as well.
Truncate_AtLimit(s) ==
    IF Len(s) >= 256 THEN SubSeq(s, 1, 253) \o <<".", ".", ".">> ELSE s

\* if len(sanitized_value) > 256: sanitized_value[:253] + '...'
Truncate(s) ==
    IF Len(s) > MaxValueLen THEN SubSeq(s, 1, KeptLen) \o <<".", ".", ".">> ELSE s

----------------------------------------------------------------------------
(* MetadataSanitizer: metadata values.  A value is a str, an int, a bool,  *)
(* None, a list of str or a dict of str to str (items: k1, v1, k2, v2 ..). *)

MetaStr(s) == [t |-> "str", s |-> s, n |-> 0, items |-> <<>>]
MetaInt(n) == [t |-> "int", s |-> <<>>, n |-> n, items |-> <<>>]
MetaBool(b) == [t |-> "bool", s |-> <<>>, n |-> IF b THEN 1 ELSE 0, items |-> <<>>]
MetaNone == [t |-> "none", s |-> <<>>, n |-> 0, items |-> <<>>]
MetaList(items) == [t |-> "list", s |-> <<>>, n |-> 0, items |-> items]
MetaDict(items) == [t |-> "dict", s |-> <<>>, n |-> 0, items |-> items]

\* repr() of a str without quotes or escapes in it
Quoted(s) == <<"'">> \o s \o <<"'">>

RECURSIVE ListRepr(_)
ListRepr(items) ==
    IF items = <<>> THEN <<>>
    ELSE IF Len(items) = 1 THEN Quoted(items[1])
    ELSE Quoted(items[1]) \o <<",", " ">> \o ListRepr(Tail(items))

RECURSIVE DictRepr(_)
DictRepr(items) ==
    IF items = <<>> THEN <<>>
    ELSE Quoted(items[1]) \o <<":", " ">> \o Quoted(items[2])
         \o (IF Len(items) > 2 THEN <<",", " ">> ELSE <<>>)
         \o DictRepr(SubSeq(items, 3, Len(items)))

\* Variant: None is taken for an empty value.
PyStr_NoneEmpty(v) ==
    CASE v.t = "str" -> v.s
      [] v.t = "int" -> IF v.n < 0 THEN <<"-">> \o Numeral(-v.n) ELSE Numeral(v.n)
      [] v.t = "bool" -> IF v.n = 1 THEN <<"T", "r", "u", "e">>
                         ELSE <<"F", "a", "l", "s", "e">>
      [] v.t = "none" -> <<>>
      [] v.t = "list" -> <<"[">> \o ListRepr(v.items) \o <<"]">>
      [] v.t = "dict" -> <<"{">> \o DictRepr(v.items) \o <<"}">>

\* str(value)
PyStr(v) ==
    CASE v.t = "str" -> v.s
      [] v.t = "int" -> IF v.n < 0 THEN <<"-">> \o Numeral(-v.n) ELSE Numeral(v.n)
      [] v.t = "bool" -> IF v.n = 1 THEN <<"T", "r", "u", "e">>
                         ELSE <<"F", "a", "l", "s", "e">>
      [] v.t = "none" -> <<"N", "o", "n", "e">>
      [] v.t = "list" -> <<"[">> \o ListRepr(v.items) \o <<"]">>
      [] v.t = "dict" -> <<"{">> \o DictRepr(v.items) \o <<"}">>

\* The body of the loop for one allow-listed value, up to the truncation.
SanitizeValue(value) == Truncate(Strip(ApplyPatterns(PyStr(value))))

\* Variant: session_id is let through as well.
allowed_keys_WithSessionId == {"speaker", "title", "track", "day", "session_id"}

allowed_keys == {"speaker", "title", "track", "day"}

----------------------------------------------------------------------------
(* MetadataSanitizer: the steps of sanitize_metadata.  metadata is None or *)
(* a dict, kept as the list of its items in iteration order.               *)

NoMetadata == [none |-> TRUE, items |-> <<>>]
Dict(items) == [none |-> FALSE, items |-> items]
Item(key, value) == [key |-> key, value |-> value]

SanitizeIdle ==
    /\ metadata = NoMetadata
    /\ sanitized = <<>>
    /\ key_idx = 1
    /\ sanitize_pc = "idle"

\* if not metadata: return {}
ReturnNoMetadata ==
    /\ sanitize_pc = "call"
    /\ metadata.none \/ metadata.items = <<>>
    /\ sanitize_pc' = "done"
    /\ UNCHANGED <<metadata, sanitized, key_idx>>

\* sanitized = {}; the loop is entered
EnterLoop ==
    /\ sanitize_pc = "call"
    /\ ~metadata.none /\ metadata.items # <<>>
    /\ sanitize_pc' = "loop"
    /\ UNCHANGED <<metadata, sanitized, key_idx>>

\* if key not in allowed_keys: continue
SkipKey ==
    /\ sanitize_pc = "loop"
    /\ key_idx <= Len(metadata.items)
    /\ metadata.items[key_idx].key \notin allowed_keys
    /\ key_idx' = key_idx + 1
    /\ UNCHANGED <<metadata, sanitized, sanitize_pc>>

\* Variant: the value of the first item is sanitized for every key.
KeepValue_FirstValue ==
    /\ sanitize_pc = "loop"
    /\ key_idx <= Len(metadata.items)
    /\ metadata.items[key_idx].key \in allowed_keys
    /\ LET sanitized_value == SanitizeValue(metadata.items[1].value)
       IN /\ sanitized_value # <<>>
          /\ sanitized' = Append(sanitized,
                                 Item(metadata.items[key_idx].key, sanitized_value))
    /\ key_idx' = key_idx + 1
    /\ UNCHANGED <<metadata, sanitize_pc>>

\* if sanitized_value: sanitized[key] = sanitized_value
KeepValue ==
    /\ sanitize_pc = "loop"
    /\ key_idx <= Len(metadata.items)
    /\ metadata.items[key_idx].key \in allowed_keys
    /\ LET sanitized_value == SanitizeValue(metadata.items[key_idx].value)
       IN /\ sanitized_value # <<>>
          /\ sanitized' = Append(sanitized,
                                 Item(metadata.items[key_idx].key, sanitized_value))
    /\ key_idx' = key_idx + 1
    /\ UNCHANGED <<metadata, sanitize_pc>>

\* an empty sanitized_value is not added
DropEmptyValue ==
    /\ sanitize_pc = "loop"
    /\ key_idx <= Len(metadata.items)
    /\ metadata.items[key_idx].key \in allowed_keys
    /\ SanitizeValue(metadata.items[key_idx].value) = <<>>
    /\ key_idx' = key_idx + 1
    /\ UNCHANGED <<metadata, sanitized, sanitize_pc>>

\* return sanitized
ReturnSanitized ==
    /\ sanitize_pc = "loop"
    /\ key_idx > Len(metadata.items)
    /\ sanitize_pc' = "done"
    /\ UNCHANGED <<metadata, sanitized, key_idx>>

SanitizeNext ==
    \/ ReturnNoMetadata
    \/ EnterLoop
    \/ SkipKey
    \/ KeepValue
    \/ DropEmptyValue
    \/ ReturnSanitized

----------------------------------------------------------------------------
(* MetadataSanitizer: inputs.                                              *)

\* Pieces of text; a str value is a concatenation of up to MaxFrag of them.
FragPool ==
    { <<"a">>, <<" ">>, <<"&">>, <<"/">>, <<":">>, <<"@">>, <<"#">>,
      <<"A">>, <<"M">>, <<"5">>, <<"9", ":", "0", "0">>,
      <<"<">>, <<">">>, <<"<", "b", ">">>,
      <<"<", "s", "c", "r", "i", "p", "t", ">", "x",
        "<", "/", "s", "c", "r", "i", "p", "t", ">">>,
      <<"<", "!", "-", "-", "c", "-", "-", ">">>,
      <<"\t">>, <<BEL>>,
      <<"S", "L", "A", "S", "H">> }

RECURSIVE Texts(_)
Texts(n) ==
    IF n = 0 THEN {<<>>}
    ELSE Texts(n - 1) \cup {t \o f : t \in Texts(n - 1), f \in FragPool}

\* n times the character c
Repeat(c, n) == [i \in 1..n |-> c]

\* Values around the length limit.
LongValues ==
    { MetaStr(Repeat("a", 256)),
      MetaStr(Repeat("a", 257)),
      MetaStr(Repeat("a", 150) \o <<" ", "<", "b", ">">> \o Repeat("b", 150)),
      MetaStr(Repeat("a", 252) \o <<" ", "&", " ", "b", "c">>),
      MetaStr(Repeat("a", 251) \o <<" ", "&", " ", "b", "c", "d">>),
      MetaStr(Repeat("a", 249) \o <<" ", "A", " ", "M", "b", "c", "d", "e">>) }

\* Values that are not str.
OtherValues ==
    { MetaInt(123), MetaInt(0), MetaBool(TRUE), MetaBool(FALSE), MetaNone,
      MetaList(<<>>), MetaList(<<<<"T", "e", "c", "h">>, <<"A", "I">>>>),
      MetaDict(<<<<"k">>, <<"v">>>>) }

\* Values of the tests and of the docstring, and values with an ampersand
\* next to a slash or with the text of a marker in them.
ExampleValues ==
    {
      MetaStr(<<"Q", "&", "A">>),
      MetaStr(
        <<" ", "<", "s", "t", "y", "l", "e", ">", "p", "<", "/", "s", "t",
          "y", "l", "e", ">", "M", "y", "<", "!", "-", "-", "c", "-", "-",
          ">", BEL, "<", "b", ">", "T", "a", "l", "k", "<", "/", "b", ">",
          "\t">>),
      MetaStr(
        <<"A", "I", "/", "M", "L", " ", "&", " ", "C", "l", "o", "u", "d",
          "/", "D", "e", "v", "O", "p", "s">>),
      MetaStr(
        <<"M", "o", "n", "d", "a", "y", " ", "@", " ", "9", ":", "0", "0",
          " ", "A", "M">>),
      MetaStr(
        <<"9", " ", ":", "0", "0", " ", "A", " ", "M">>),
      MetaStr(
        <<"R", " ", "&", " ", "D">>),
      MetaStr(
        <<"a", "&", "/", "b">>),
      MetaStr(
        <<"a", "/", "&", "b">>),
      MetaStr(
        <<"a", "S", "L", "A", "S", "H", "b">>),
      MetaStr(
        <<"9", "T", "I", "M", "E", "C", "O", "L", "O", "N", "0", "0">>),
      MetaStr(
        <<"9", " ", "T", "I", "M", "E", "C", "O", "L", "O", "N", "0", "0">>),
      MetaStr(
        <<"a", " ", "A", "M", "P", "E", "R", "S", "A", "N", "D", " ", "b">>),
      MetaStr(
        <<"<", "b", ">", "S", "L", "A", "S", "H", "<", "/", "b", ">">>),
      MetaStr(
        <<"a", " ", "&", " ", "b", "/", "d", " ", "9", ":", "0", "0">>) }

DocTitle ==
    <<"M", "y", " ", "<", "s", "c", "r", "i", "p", "t", ">", "a", "l", "e",
      "r", "t", "(", "\"", "x", "s", "s", "\"", ")", "<", "/", "s", "c",
      "r", "i", "p", "t", ">", " ", "T", "a", "l", "k", "!">>
DocTrack ==
    <<"A", "I", "/", "M", "L", " ", "&", " ", "D", "e", "e", "p", "-", "L",
      "e", "a", "r", "n", "i", "n", "g", " ", "T", "r", "a", "c", "k", " ",
      "@", "2", "0", "2", "4">>

\* The metadata of the docstring's example.
DocExample ==
    Dict(<<Item("title", MetaStr(DocTitle)), Item("track", MetaStr(DocTrack))>>)

Values ==
    {MetaStr(t) : t \in Texts(MaxFrag)} \cup LongValues \cup OtherValues
    \cup ExampleValues

\* The values of the maps with several keys: one that stays as it is, one
\* that is emptied, one that is changed.
MixValues ==
    { MetaStr(<<"o", "k">>), MetaStr(<<"<", "b", ">">>), MetaStr(<<" ", "a", "#">>) }

KeyPool == {"speaker", "title", "track", "day", "session_id"}

\* The keys of the maps with several keys.
MixKeys == {"speaker", "title", "day", "session_id"}

Distinct(keys) == \A i, j \in 1..Len(keys) : i # j => keys[i] # keys[j]

KeyLists(n) ==
    {keys \in [1..n -> MixKeys] : Distinct(keys)}

MetadataInputs ==
    {NoMetadata, Dict(<<>>), DocExample}
    \cup {Dict(<<Item("title", v)>>) : v \in Values}
    \cup {Dict(<<Item(k, v)>>) : k \in KeyPool, v \in MixValues}
    \cup UNION { {Dict([i \in 1..n |-> Item(keys[i], vals[i])]) :
                     keys \in KeyLists(n), vals \in [1..n -> MixValues]} :
                 n \in 2..MaxKeys }

SanitizeCalled ==
    /\ metadata \in MetadataInputs
    /\ sanitized = <<>>
    /\ key_idx = 1
    /\ sanitize_pc = "call"

----------------------------------------------------------------------------
(* TranscriptionService._wait_for_transcription: the polling loop.  One    *)
(* step is one pass of the while loop, or the raise behind it.             *)

\* The statuses of a job that is neither COMPLETED nor FAILED.
PendingStatuses == {"QUEUED", "IN_PROGRESS"}

\* response['TranscriptionJob'].get('FailureReason') of a failed job
FailureReasons == {"Unsupported media", "absent"}

NoOutcome == [kind |-> "none", detail |-> "", attempts |-> 0]

\* return self.strategy.process_transcription(...)
StrategyResult == [kind |-> "result", detail |-> "process_transcription", attempts |-> 0]

\* process_transcription raised; the exception leaves the function
StrategyError == [kind |-> "error", detail |-> "process_transcription", attempts |-> 0]

\* get_transcription_job raised; the exception leaves the function
ClientError == [kind |-> "error", detail |-> "get_transcription_job", attempts |-> 0]

\* Exception(f"Transcription job failed: {error_message}")
JobFailed(reason) ==
    [kind |-> "Transcription job failed: ",
     detail |-> IF reason = "absent" THEN "Unknown error" ELSE reason,
     attempts |-> 0]

\* Exception(f"Transcription job timed out after {max_attempts} attempts")
TimedOut(n) ==
    [kind |-> "Transcription job timed out after ", detail |-> " attempts",
     attempts |-> n]

WaitIdle ==
    /\ max_attempts = 0
    /\ attempt = 0
    /\ status = "none"
    /\ polls = <<>>
    /\ sleeps = 0
    /\ wait_pc = "idle"
    /\ wait_outcome = NoOutcome

\* attempt = 0
WaitCalled ==
    /\ max_attempts \in 0..MaxAttempts
    /\ attempt = 0
    /\ status = "none"
    /\ polls = <<>>
    /\ sleeps = 0
    /\ wait_pc = "loop"
    /\ wait_outcome = NoOutcome

\* Variant: the loop goes on while attempt <= max_attempts.
LoopCondition_Inclusive == attempt <= max_attempts

\* while attempt < max_attempts
LoopCondition == attempt < max_attempts

\* status == 'COMPLETED': the strategy's result is returned
PollCompleted ==
    /\ wait_pc = "loop"
    /\ LoopCondition
    /\ attempt' = attempt + 1
    /\ status' = "COMPLETED"
    /\ polls' = Append(polls, "COMPLETED")
    /\ wait_pc' = "returned"
    /\ wait_outcome' = StrategyResult
    /\ UNCHANGED <<max_attempts, sleeps>>

\* status == 'COMPLETED' and the strategy raises
PollCompletedStrategyRaises ==
    /\ wait_pc = "loop"
    /\ LoopCondition
    /\ attempt' = attempt + 1
    /\ status' = "COMPLETED"
    /\ polls' = Append(polls, "COMPLETED")
    /\ wait_pc' = "raised"
    /\ wait_outcome' = StrategyError
    /\ UNCHANGED <<max_attempts, sleeps>>

\* status == 'FAILED': raise Exception("Transcription job failed: ...")
PollFailed ==
    /\ wait_pc = "loop"
    /\ LoopCondition
    /\ \E reason \in FailureReasons :
          wait_outcome' = JobFailed(reason)
    /\ attempt' = attempt + 1
    /\ status' = "FAILED"
    /\ polls' = Append(polls, "FAILED")
    /\ wait_pc' = "raised"
    /\ UNCHANGED <<max_attempts, sleeps>>

\* any other status: time.sleep(delay_seconds) and the next pass
PollPending ==
    /\ wait_pc = "loop"
    /\ LoopCondition
    /\ \E s \in PendingStatuses :
          /\ status' = s
          /\ polls' = Append(polls, s)
    /\ attempt' = attempt + 1
    /\ sleeps' = sleeps + 1
    /\ UNCHANGED <<max_attempts, wait_pc, wait_outcome>>

\* get_transcription_job raises
PollRaises ==
    /\ wait_pc = "loop"
    /\ LoopCondition
    /\ attempt' = attempt + 1
    /\ polls' = Append(polls, "raised")
    /\ wait_pc' = "raised"
    /\ wait_outcome' = ClientError
    /\ UNCHANGED <<max_attempts, status, sleeps>>

\* the loop is left: raise Exception("Transcription job timed out ...")
RaiseTimedOut ==
    /\ wait_pc = "loop"
    /\ ~LoopCondition
    /\ wait_pc' = "raised"
    /\ wait_outcome' = TimedOut(max_attempts)
    /\ UNCHANGED <<max_attempts, attempt, status, polls, sleeps>>

WaitNext ==
    \/ PollCompleted
    \/ PollCompletedStrategyRaises
    \/ PollFailed
    \/ PollPending
    \/ PollRaises
    \/ RaiseTimedOut

----------------------------------------------------------------------------
(* embedding_handler.lambda_handler.  A record is what the loop reads of   *)
(* it: whether it has a body and what the body parses to, the chunk_id and *)
(* the length of the text of the message.                                  *)

Record(body, id, text_length) ==
    [body |-> body, chunk_id |-> id, text_length |-> text_length]

\* record['body'] raises KeyError
NoBody == Record("absent", "absent", 0)
\* json.loads raises JSONDecodeError
InvalidJson == Record("invalid json", "absent", 0)
\* the body is JSON but no object: message_body.get raises AttributeError
JsonList == Record("json list", "absent", 0)
\* 'metadata' is no object: parse_metadata raises AttributeError
BadMetadata == Record("bad metadata", "chunk-1", 9)
Chunk1 == Record("message", "chunk-1", 9)
Chunk2 == Record("message", "chunk-2", 9)
\* no 'chunk_id' in the message
NoChunkId == Record("message", "absent", 9)
\* no text: create_embedding raises OpenAIServiceError
NoTextChunk == Record("message", "chunk-3", 0)

RecordPool ==
    {NoBody, InvalidJson, JsonList, BadMetadata, Chunk1, Chunk2, NoChunkId,
     NoTextChunk}

\* The records of the longer events.
MixRecords == {InvalidJson, Chunk1, Chunk2, NoTextChunk}

EventInputs ==
    {<<>>}
    \cup {<<r>> : r \in RecordPool}
    \cup UNION {[1..n -> MixRecords] : n \in 2..MaxRecords}

NoResponse == [statusCode |-> 0, processed_records |-> <<>>]

\* {'statusCode': 200, 'body': {... 'processed_records': processed_records}}
Completed(records) == [statusCode |-> 200, processed_records |-> records]

\* {'statusCode': 500, 'body': {'message': 'Error processing embeddings', ..}}
FatalError == [statusCode |-> 500, processed_records |-> <<>>]

\* create_error_record(chunk_id if 'chunk_id' in locals() else 'unknown', e)
create_error_record(id, error) ==
    [chunk_id |-> IF id = "unbound" THEN "unknown" ELSE id,
     status |-> "error", error |-> error, text_length |-> 0]

\* the record appended after a successful upsert
SuccessRecord(id, text_length) ==
    [chunk_id |-> id, status |-> "success", error |-> "none",
     text_length |-> text_length]

\* A call for record i, and whether it returned (ok) or raised.
Call(op, i, ok) == [op |-> op, record |-> i, ok |-> ok]

EmbeddingIdle ==
    /\ openai_service = "None"
    /\ pinecone_service = "None"
    /\ event_records = <<>>
    /\ record_idx = 1
    /\ chunk_id = "unbound"
    /\ processed_records = <<>>
    /\ service_calls = <<>>
    /\ response = NoResponse
    /\ embedding_pc = "idle"

\* lambda_handler(event, context), in a new or in a reused container
EmbeddingCalled ==
    /\ openai_service \in {"None", "ready"}
    /\ pinecone_service \in {"None", "ready"}
    /\ event_records \in EventInputs
    /\ record_idx = 1
    /\ chunk_id = "unbound"
    /\ processed_records = <<>>
    /\ service_calls = <<>>
    /\ response = NoResponse
    /\ embedding_pc = "openai"

\* openai_service = get_openai_service()
GetOpenAIService ==
    /\ embedding_pc = "openai"
    /\ openai_service' = "ready"
    /\ embedding_pc' = "pinecone"
    /\ UNCHANGED <<pinecone_service, event_records, record_idx, chunk_id,
                   processed_records, service_calls, response>>

\* OpenAIService() raises: the outer except returns statusCode 500
GetOpenAIServiceRaises ==
    /\ embedding_pc = "openai"
    /\ openai_service = "None"
    /\ response' = FatalError
    /\ embedding_pc' = "done"
    /\ UNCHANGED <<openai_service, pinecone_service, event_records,
                   record_idx, chunk_id, processed_records, service_calls>>

\* pinecone_service = get_pinecone_service()
GetPineconeService ==
    /\ embedding_pc = "pinecone"
    /\ pinecone_service' = "ready"
    /\ embedding_pc' = "record"
    /\ UNCHANGED <<openai_service, event_records, record_idx, chunk_id,
                   processed_records, service_calls, response>>

\* PineconeService() raises: the outer except returns statusCode 500
GetPineconeServiceRaises ==
    /\ embedding_pc = "pinecone"
    /\ pinecone_service = "None"
    /\ response' = FatalError
    /\ embedding_pc' = "done"
    /\ UNCHANGED <<openai_service, pinecone_service, event_records,
                   record_idx, chunk_id, processed_records, service_calls>>

\* The exception the first lines of the loop body raise for a body.
BodyError(body) ==
    CASE body = "absent" -> "KeyError"
      [] body = "invalid json" -> "JSONDecodeError"
      [] body = "json list" -> "AttributeError"
      [] OTHER -> "none"

\* record['body'], json.loads or message_body.get raises
LoadMessageRaises ==
    /\ embedding_pc = "record"
    /\ record_idx <= Len(event_records)
    /\ BodyError(event_records[record_idx].body) # "none"
    /\ processed_records' =
          Append(processed_records,
                 create_error_record(chunk_id,
                                     BodyError(event_records[record_idx].body)))
    /\ record_idx' = record_idx + 1
    /\ UNCHANGED <<openai_service, pinecone_service, event_records, chunk_id,
                   service_calls, response, embedding_pc>>

\* chunk_id = message_body.get('chunk_id', 'unknown_chunk')
MessageChunkId(record) ==
    IF record.chunk_id = "absent" THEN "unknown_chunk" ELSE record.chunk_id

\* chunk_id is assigned, then parse_metadata raises
ParseMetadataRaises ==
    /\ embedding_pc = "record"
    /\ record_idx <= Len(event_records)
    /\ event_records[record_idx].body = "bad metadata"
    /\ chunk_id' = MessageChunkId(event_records[record_idx])
    /\ processed_records' =
          Append(processed_records,
                 create_error_record(chunk_id', "AttributeError"))
    /\ record_idx' = record_idx + 1
    /\ UNCHANGED <<openai_service, pinecone_service, event_records,
                   service_calls, response, embedding_pc>>

\* message_body, chunk_id, text_content and metadata are read
LoadMessage ==
    /\ embedding_pc = "record"
    /\ record_idx <= Len(event_records)
    /\ event_records[record_idx].body = "message"
    /\ chunk_id' = MessageChunkId(event_records[record_idx])
    /\ embedding_pc' = "embed"
    /\ UNCHANGED <<openai_service, pinecone_service, event_records,
                   record_idx, processed_records, service_calls, response>>

\* embedding_response = openai_service.create_embedding(text_content)
CreateEmbedding ==
    /\ embedding_pc = "embed"
    /\ event_records[record_idx].text_length > 0
    /\ service_calls' =
          Append(service_calls, Call("create_embedding", record_idx, TRUE))
    /\ embedding_pc' = "upsert"
    /\ UNCHANGED <<openai_service, pinecone_service, event_records,
                   record_idx, chunk_id, processed_records, response>>

\* create_embedding raises OpenAIServiceError: no text, or the API fails
CreateEmbeddingRaises ==
    /\ embedding_pc = "embed"
    /\ service_calls' =
          Append(service_calls, Call("create_embedding", record_idx, FALSE))
    /\ processed_records' =
          Append(processed_records,
                 create_error_record(chunk_id, "OpenAIServiceError"))
    /\ record_idx' = record_idx + 1
    /\ embedding_pc' = "record"
    /\ UNCHANGED <<openai_service, pinecone_service, event_records, chunk_id,
                   response>>

\* Variant: the upsert is made and the record reported as a success
\* whatever the upsert does.
UpsertEmbeddingsRaises_Swallowed ==
    /\ embedding_pc = "upsert"
    /\ service_calls' =
          Append(service_calls, Call("upsert_embeddings", record_idx, FALSE))
    /\ processed_records' =
          Append(processed_records,
                 SuccessRecord(chunk_id, event_records[record_idx].text_length))
    /\ record_idx' = record_idx + 1
    /\ embedding_pc' = "record"
    /\ UNCHANGED <<openai_service, pinecone_service, event_records, chunk_id,
                   response>>

\* upsert_response = pinecone_service.upsert_embeddings(...); the success
\* record is appended
UpsertEmbeddings ==
    /\ embedding_pc = "upsert"
    /\ service_calls' =
          Append(service_calls, Call("upsert_embeddings", record_idx, TRUE))
    /\ processed_records' =
          Append(processed_records,
                 SuccessRecord(chunk_id, event_records[record_idx].text_length))
    /\ record_idx' = record_idx + 1
    /\ embedding_pc' = "record"
    /\ UNCHANGED <<openai_service, pinecone_service, event_records, chunk_id,
                   response>>

\* upsert_embeddings raises PineconeServiceError
UpsertEmbeddingsRaises ==
    /\ embedding_pc = "upsert"
    /\ service_calls' =
          Append(service_calls, Call("upsert_embeddings", record_idx, FALSE))
    /\ processed_records' =
          Append(processed_records,
                 create_error_record(chunk_id, "PineconeServiceError"))
    /\ record_idx' = record_idx + 1
    /\ embedding_pc' = "record"
    /\ UNCHANGED <<openai_service, pinecone_service, event_records, chunk_id,
                   response>>

\* return {'statusCode': 200, ...}
ReturnProcessed ==
    /\ embedding_pc = "record"
    /\ record_idx > Len(event_records)
    /\ response' = Completed(processed_records)
    /\ embedding_pc' = "done"
    /\ UNCHANGED <<openai_service, pinecone_service, event_records,
                   record_idx, chunk_id, processed_records, service_calls>>

EmbeddingNext ==
    \/ GetOpenAIService
    \/ GetOpenAIServiceRaises
    \/ GetPineconeService
    \/ GetPineconeServiceRaises
    \/ LoadMessageRaises
    \/ ParseMetadataRaises
    \/ LoadMessage
    \/ CreateEmbedding
    \/ CreateEmbeddingRaises
    \/ UpsertEmbeddings
    \/ UpsertEmbeddingsRaises
    \/ ReturnProcessed

----------------------------------------------------------------------------
(* hashlib.sha256 (FIPS 180-4) on the UTF-8 bytes of a str of printable    *)
(* ASCII characters, one block (at most 55 bytes).  A 32-bit word is kept  *)
(* as <<high half, low half>>.                                             *)

AsciiPrintable ==
    <<
       " ", "!", "\"", "#", "$", "%", "&", "'", "(", ")", "*", "+",
       ",", "-", ".", "/", "0", "1", "2", "3", "4", "5", "6", "7",
       "8", "9", ":", ";", "<", "=", ">", "?", "@", "A", "B", "C",
       "D", "E", "F", "G", "H", "I", "J", "K", "L", "M", "N", "O",
       "P", "Q", "R", "S", "T", "U", "V", "W", "X", "Y", "Z", "[",
       "\\", "]", "^", "_", "grave", "a", "b", "c", "d", "e", "f", "g",
       "h", "i", "j", "k", "l", "m", "n", "o", "p", "q", "r", "s",
       "t", "u", "v", "w", "x", "y", "z", "{", "|", "}", "~" >>

\* str.encode('utf-8') for one character of AsciiPrintable
Ord(c) == 31 + CHOOSE i \in 1..Len(AsciiPrintable) : AsciiPrintable[i] = c

Half == 256 * 256

PowersOfTwo ==
    <<1, 2, 4, 8, 16, 32, 64, 128, 256, 512, 1024, 2048, 4096, 8192, 16384,
      32768, 65536>>
Pow2(n) == PowersOfTwo[n + 1]

XorTable == <<0, 1, 1, 0>>
AndTable == <<0, 0, 0, 1>>

\* The bitwise operation of the table on the n low bits of a and b.
RECURSIVE Bitwise(_, _, _, _)
Bitwise(table, a, b, n) ==
    IF n = 0 THEN 0
    ELSE table[2 * (a % 2) + (b % 2) + 1]
         + 2 * Bitwise(table, a \div 2, b \div 2, n - 1)

\* The operations on four bits, tabulated.
XorNibble == [a \in 0..15 |-> [b \in 0..15 |-> Bitwise(XorTable, a, b, 4)]]
AndNibble == [a \in 0..15 |-> [b \in 0..15 |-> Bitwise(AndTable, a, b, 4)]]

\* The operation of the table on two 16-bit halves, four bits at a time.
OnHalves(nibble, a, b) ==
    nibble[a % 16][b % 16]
    + 16 * nibble[(a \div 16) % 16][(b \div 16) % 16]
    + 256 * nibble[(a \div 256) % 16][(b \div 256) % 16]
    + 4096 * nibble[a \div 4096][b \div 4096]

Xor(x, y) == <<OnHalves(XorNibble, x[1], y[1]), OnHalves(XorNibble, x[2], y[2])>>
And(x, y) == <<OnHalves(AndNibble, x[1], y[1]), OnHalves(AndNibble, x[2], y[2])>>
Not(x) == <<Half - 1 - x[1], Half - 1 - x[2]>>

\* addition modulo 2^32
Add(x, y) ==
    LET lo == x[2] + y[2]
        hi == x[1] + y[1] + (lo \div Half)
    IN <<hi % Half, lo % Half>>

RECURSIVE Rotr(_, _)
Rotr(x, n) ==
    IF n >= 16 THEN Rotr(<<x[2], x[1]>>, n - 16)
    ELSE IF n = 0 THEN x
    ELSE <<(x[1] \div Pow2(n)) + (x[2] % Pow2(n)) * Pow2(16 - n),
           (x[2] \div Pow2(n)) + (x[1] % Pow2(n)) * Pow2(16 - n)>>

\* right shift by n < 16
Shr(x, n) ==
    <<x[1] \div Pow2(n), (x[2] \div Pow2(n)) + (x[1] % Pow2(n)) * Pow2(16 - n)>>

Ch(x, y, z) == Xor(And(x, y), And(Not(x), z))
Maj(x, y, z) == Xor(Xor(And(x, y), And(x, z)), And(y, z))
BigSigma0(x) == Xor(Xor(Rotr(x, 2), Rotr(x, 13)), Rotr(x, 22))
BigSigma1(x) == Xor(Xor(Rotr(x, 6), Rotr(x, 11)), Rotr(x, 25))
SmallSigma0(x) == Xor(Xor(Rotr(x, 7), Rotr(x, 18)), Shr(x, 3))
SmallSigma1(x) == Xor(Xor(Rotr(x, 17), Rotr(x, 19)), Shr(x, 10))

RoundConstants ==
    <<
      <<17034, 12184>>, <<28983, 17553>>, <<46528, 64463>>, <<59829, 56229>>,
      <<14678, 49755>>, <<23025, 4593>>, <<37439, 33444>>, <<43804, 24277>>,
      <<55303, 43672>>, <<4739, 23297>>, <<9265, 34238>>, <<21772, 32195>>,
      <<29374, 23924>>, <<32990, 45566>>, <<39900, 1703>>, <<49563, 61812>>,
      <<58523, 27073>>, <<61374, 18310>>, <<4033, 40390>>, <<9228, 41420>>,
      <<11753, 11375>>, <<19060, 33962>>, <<23728, 43484>>, <<30457, 35034>>,
      <<38974, 20818>>, <<43057, 50797>>, <<45059, 10184>>, <<48985, 32711>>,
      <<50912, 3059>>, <<54695, 37191>>, <<1738, 25425>>, <<5161, 10599>>,
      <<10167, 2693>>, <<11803, 8504>>, <<19756, 28156>>, <<21304, 3347>>,
      <<25866, 29524>>, <<30314, 2747>>, <<33218, 51502>>, <<37490, 11397>>,
      <<41663, 59553>>, <<43034, 26187>>, <<49739, 35696>>, <<51052, 20899>>,
      <<53650, 59417>>, <<54937, 1572>>, <<62478, 13701>>, <<4202, 41072>>,
      <<6564, 49430>>, <<7735, 27656>>, <<10056, 30540>>, <<13488, 48309>>,
      <<14620, 3251>>, <<20184, 43594>>, <<23452, 51791>>, <<26670, 28659>>,
      <<29839, 33518>>, <<30885, 25455>>, <<33992, 30740>>, <<36039, 520>>,
      <<37054, 65530>>, <<42064, 27883>>, <<48889, 41975>>, <<50801, 30962>> >>

InitialHash ==
    <<
      <<27145, 58983>>, <<47975, 44677>>, <<15470, 62322>>, <<42319, 62778>>,
      <<20750, 21119>>, <<39685, 26764>>, <<8067, 55723>>, <<23520, 52505>> >>

\* The one 64-byte block of a message of at most 55 bytes: the bytes, 0x80,
\* zeros, and the length in bits in the last two bytes.
PaddedBlock(bytes) ==
    [i \in 1..64 |->
        IF i <= Len(bytes) THEN bytes[i]
        ELSE IF i = Len(bytes) + 1 THEN 128
        ELSE IF i = 63 THEN (8 * Len(bytes)) \div 256
        ELSE IF i = 64 THEN (8 * Len(bytes)) % 256
        ELSE 0]

BlockWords(block) ==
    [t \in 1..16 |-> <<256 * block[4 * t - 3] + block[4 * t - 2],
                       256 * block[4 * t - 1] + block[4 * t]>>]

\* The message schedule, extended from t words to 64.
RECURSIVE Schedule(_)
Schedule(w) ==
    IF Len(w) = 64 THEN w
    ELSE LET t == Len(w) + 1
         IN Schedule(Append(w, Add(Add(SmallSigma1(w[t - 2]), w[t - 7]),
                                   Add(SmallSigma0(w[t - 15]), w[t - 16]))))

\* The rounds t..64 of the compression on the working variables a..h (the
\* test of Len(v) has v evaluated before the next round is entered).
RECURSIVE Rounds(_, _, _)
Rounds(v, w, t) ==
    IF t > 64 \/ Len(v) # 8 THEN v
    ELSE LET t1 == Add(Add(Add(v[8], BigSigma1(v[5])),
                           Add(Ch(v[5], v[6], v[7]), RoundConstants[t])), w[t])
             t2 == Add(BigSigma0(v[1]), Maj(v[1], v[2], v[3]))
         IN Rounds(<<Add(t1, t2), v[1], v[2], v[3], Add(v[4], t1), v[5], v[6], v[7]>>,
                   w, t + 1)

HexDigits ==
    <<"0", "1", "2", "3", "4", "5", "6", "7", "8", "9", "a", "b", "c", "d",
      "e", "f">>

HexOfHalf(h) ==
    <<HexDigits[(h \div 4096) + 1], HexDigits[((h \div 256) % 16) + 1],
      HexDigits[((h \div 16) % 16) + 1], HexDigits[(h % 16) + 1]>>

RECURSIVE HexOfWords(_)
HexOfWords(ws) ==
    IF ws = <<>> THEN <<>>
    ELSE HexOfHalf(Head(ws)[1]) \o HexOfHalf(Head(ws)[2]) \o HexOfWords(Tail(ws))

\* hashlib.sha256(s.encode('utf-8')).hexdigest(), for Len(s) <= 55
Sha256Hex(s) ==
    LET bytes == [i \in 1..Len(s) |-> Ord(s[i])]
        w == Schedule(BlockWords(PaddedBlock(bytes)))
        v == Rounds(InitialHash, w, 1)
    IN HexOfWords([i \in 1..8 |-> Add(InitialHash[i], v[i])])

----------------------------------------------------------------------------
(* chunking_handler.generate_chunk_hash.                                   *)

PyInt(n) == [t |-> "int", s |-> <<>>, n |-> n]

\* File names of the model: a media file and the key of a transcription.
MediaFile == <<"m", "e", "d", "i", "a", "/", "1", ".", "m", "p", "4">>
SourceKey == <<"o", "u", "t", "/", "1", ".", "j", "s", "o", "n">>
FileNames == {MediaFile, SourceKey}

\* str(n) of an int
IntStr(n) == IF n < 0 THEN <<"-">> \o Numeral(-n) ELSE Numeral(n)

\* f"{original_file}:{segment_id}"
UniqueString(original_file, segment_id) ==
    original_file \o <<":">> \o IntStr(segment_id)

\* The digests of the unique strings of the model, computed once.
Digests ==
    [u \in {UniqueString(f, n) : f \in FileNames, n \in 0..MaxSegmentId} |->
        Sha256Hex(u)]

\* hashlib.sha256(unique_string.encode('utf-8')).hexdigest()
HexDigest(unique_string) ==
    IF unique_string \in DOMAIN Digests THEN Digests[unique_string]
    ELSE Sha256Hex(unique_string)

\* Variant: segment 0 is rejected with the negative ids.
generate_chunk_hash_ZeroRejected(original_file, segment_id) ==
    IF original_file.t = "none" \/ original_file.s = <<>>
    THEN Raise("ValueError")
    ELSE IF segment_id.t = "none" \/ segment_id.n <= 0
    THEN Raise("ValueError")
    ELSE Ok(SubSeq(HexDigest(UniqueString(original_file.s, segment_id.n)), 1, 10))

\* generate_chunk_hash(original_file, segment_id): the first 10 characters
\* of the digest, or the ValueError of the validation.
generate_chunk_hash(original_file, segment_id) ==
    IF original_file.t = "none" \/ original_file.s = <<>>
    THEN Raise("ValueError")
    ELSE IF segment_id.t = "none" \/ segment_id.n < 0
    THEN Raise("ValueError")
    ELSE Ok(SubSeq(HexDigest(UniqueString(original_file.s, segment_id.n)), 1, 10))

HashIdle ==
    /\ hash_original_file = PyNone
    /\ hash_segment_id = PyNone
    /\ hash_results = <<>>
    /\ hash_pc = "idle"

\* The arguments of the calls: original_file None, empty or a name,
\* segment_id None or an int from -2 on.
HashCalled ==
    /\ hash_original_file \in {PyNone, Str(<<>>)} \cup {Str(f) : f \in FileNames}
    /\ hash_segment_id \in {PyNone} \cup {PyInt(n) : n \in (-2)..MaxSegmentId}
    /\ hash_results = <<>>
    /\ hash_pc = "call"

\* One call that returns the hash.
ReturnHash ==
    /\ hash_pc = "call"
    /\ Len(hash_results) < MaxHashCalls
    /\ generate_chunk_hash(hash_original_file, hash_segment_id).ok
    /\ hash_results' =
          Append(hash_results, generate_chunk_hash(hash_original_file, hash_segment_id))
    /\ UNCHANGED <<hash_original_file, hash_segment_id, hash_pc>>

\* One call that raises ValueError.
RaiseValueError ==
    /\ hash_pc = "call"
    /\ Len(hash_results) < MaxHashCalls
    /\ ~generate_chunk_hash(hash_original_file, hash_segment_id).ok
    /\ hash_results' =
          Append(hash_results, generate_chunk_hash(hash_original_file, hash_segment_id))
    /\ UNCHANGED <<hash_original_file, hash_segment_id, hash_pc>>

\* The caller makes no further call.
HashDone ==
    /\ hash_pc = "call"
    /\ Len(hash_results) = MaxHashCalls
    /\ hash_pc' = "done"
    /\ UNCHANGED <<hash_original_file, hash_segment_id, hash_results>>

HashNext ==
    \/ ReturnHash
    \/ RaiseValueError
    \/ HashDone

----------------------------------------------------------------------------
(* chunking_handler: extract_s3_details, process_audio_segments,           *)
(* get_s3_object, send_to_sqs and lambda_handler; error_handler.           *)
(* A text is a sequence of characters or of longer pieces.                 *)

PyDict(items) == [t |-> "dict", s |-> items, n |-> 0]

\* not value, for None, a str or a dict
Falsy(value) == value.t \in {"none", "missing"} \/ value.s = <<>>

\* What a call gave: a value, or an exception with its type and str().
Gave(v) == [kind |-> "returned", val |-> v, type |-> "none", msg |-> <<>>]
Raised(type, msg) == [kind |-> "raised", val |-> 0, type |-> type, msg |-> msg]
NothingYet == [kind |-> "none", val |-> 0, type |-> "none", msg |-> <<>>]

BucketName == <<"b", "u", "c", "k", "e", "t">>
QueueUrl == <<"https://sqs/queue">>
SpeakerMetadata == PyDict(<<Item("speaker", <<"A", "n", "n">>)>>)

\* One audio segment of the transcription JSON.
Segment(id, text, transcript, start_time, end_time) ==
    [id |-> id, text |-> text, transcript |-> transcript,
     start_time |-> start_time, end_time |-> end_time]

WithText(n) ==
    Segment(PyInt(n), Str(<<"hello">>), Missing,
            Num(n * FracScale), Num((n + 1) * FracScale))
WithTranscript(n) ==
    Segment(PyInt(n), Missing, Str(<<"world">>),
            Num(n * FracScale), Num((n + 1) * FracScale))
WithNeither(n) ==
    Segment(PyInt(n), Missing, Missing,
            Num(n * FracScale), Num((n + 1) * FracScale))
WithoutId == Segment(Missing, Str(<<"hello">>), Missing, Num(0), Num(FracScale))
WithNegativeId ==
    Segment(PyInt(-1), Str(<<"hello">>), Missing, Num(0), Num(FracScale))
WithoutStartTime ==
    Segment(PyInt(1), Str(<<"hello">>), Missing, Missing, Num(FracScale))

SegmentPool ==
    {WithText(0), WithTranscript(1), WithNeither(MaxSegmentId),
     WithoutId, WithNegativeId, WithoutStartTime}

SegmentLists(n) == UNION {[1..k -> SegmentPool] : k \in 0..n}

\* One record of the event: absent fields are Missing.
S3Record(bucket, key, meta) == [bucket |-> bucket, key |-> key, metadata |-> meta]

NoEvent == [kind |-> "no call", detail |-> FALSE, records |-> <<>>]
EventNone == [kind |-> "None", detail |-> FALSE, records |-> <<>>]
EventDict(detail, records) ==
    [kind |-> "dict", detail |-> detail, records |-> records]

S3Records ==
    {S3Record(b, k, m) : b \in {Missing, Str(<<>>), Str(BucketName)},
                         k \in {Missing, Str(SourceKey)},
                         m \in {Missing, SpeakerMetadata}}

\* The events: None, {}, {'detail': {}} and a detail with one record or
\* with a second record behind a complete one.
ChunkEvents ==
    {EventNone, EventDict(FALSE, <<>>), EventDict(TRUE, <<>>)}
    \cup {EventDict(TRUE, <<r>>) : r \in S3Records}
    \cup {EventDict(TRUE, <<S3Record(Str(BucketName), Str(SourceKey), Missing),
                            S3Record(Missing, Missing, SpeakerMetadata)>>)}

NotFound == [found |-> FALSE, bucket |-> <<>>, key |-> <<>>, metadata |-> Missing]

\* extract_s3_details(event), for an event that is a dict
extract_s3_details(event) ==
    IF event.detail /\ event.records # <<>>
    THEN LET record == event.records[1]
             bucket == Get(record, "bucket", PyNone)
             key == Get(record, "key", PyNone)
             meta == Get(record, "metadata", PyDict(<<>>))
         IN  IF ~Falsy(bucket) /\ ~Falsy(key)
             THEN [found |-> TRUE, bucket |-> bucket.s, key |-> key.s,
                   metadata |-> meta]
             ELSE NotFound
    ELSE NotFound

\* What S3 holds: nothing, bytes that are not JSON, an object that may not
\* be read, or the JSON of a transcription.
NoObject ==
    [state |-> "none", original_file |-> Missing, audio_segments |-> <<>>,
     results_segments |-> <<>>]
FailingObject(state) ==
    [state |-> state, original_file |-> Missing, audio_segments |-> <<>>,
     results_segments |-> <<>>]
JsonObject(original_file, segments, results_segments) ==
    [state |-> "json", original_file |-> original_file,
     audio_segments |-> segments, results_segments |-> results_segments]

S3Objects ==
    {FailingObject(st) : st \in {"missing", "invalid_json", "denied"}}
    \cup {JsonObject(f, segs, old) :
            f \in {Missing, Str(<<>>), Str(MediaFile)},
            segs \in SegmentLists(MaxSegments - 1),
            old \in {<<>>, <<WithTranscript(1)>>}}

\* get_s3_object(bucket, key)
get_s3_object(bucket, key) ==
    CASE s3_object.state = "missing" ->
           Raised("ValueError",
                  <<"File ">> \o key \o <<" not found", " in bucket ">>
                  \o bucket)
      [] s3_object.state = "denied" ->
           Raised("ClientError", <<"An error occurred (AccessDenied)">>)
      [] s3_object.state = "invalid_json" ->
           Raised("ValueError", <<"File ">> \o key \o <<" is not valid JSON">>)
      [] OTHER -> Gave(s3_object)

\* process_audio_segments(json_data)
process_audio_segments(json_data) ==
    IF json_data.audio_segments # <<>> THEN json_data.audio_segments
    ELSE json_data.results_segments

\* segment.get('text', segment.get('transcript', ''))
TextContent(segment) ==
    Get(segment, "text", Get(segment, "transcript", Str(<<>>)))

\* The message of the ValueError of generate_chunk_hash.
HashErrorMessage(original_file) ==
    IF Falsy(original_file) THEN <<"original_file cannot be empty or None">>
    ELSE <<"segment_id must be a non-negative integer">>

\* Variant: the message carries no metadata.
BuildMessage_EmptyMetadata(segment, original_file, meta) ==
    IF segment.id.t = "missing" THEN Raised("KeyError", <<"'id'">>)
    ELSE IF ~generate_chunk_hash(original_file, segment.id).ok
    THEN Raised("ValueError", HashErrorMessage(original_file))
    ELSE IF segment.start_time.t = "missing"
    THEN Raised("KeyError", <<"'start_time'">>)
    ELSE IF segment.end_time.t = "missing"
    THEN Raised("KeyError", <<"'end_time'">>)
    ELSE Gave([chunk_id |-> generate_chunk_hash(original_file, segment.id).val,
                   text |-> TextContent(segment),
                   start_time |-> segment.start_time,
                   end_time |-> segment.end_time,
                   original_file |-> original_file,
                   segment_id |-> segment.id,
                   metadata |-> PyDict(<<>>)])

\* The body of the try block up to the message dict: the message, or the
\* exception of segment['id'], generate_chunk_hash, segment['start_time'] or
\* segment['end_time'].
BuildMessage(segment, original_file, meta) ==
    IF segment.id.t = "missing" THEN Raised("KeyError", <<"'id'">>)
    ELSE IF ~generate_chunk_hash(original_file, segment.id).ok
    THEN Raised("ValueError", HashErrorMessage(original_file))
    ELSE IF segment.start_time.t = "missing"
    THEN Raised("KeyError", <<"'start_time'">>)
    ELSE IF segment.end_time.t = "missing"
    THEN Raised("KeyError", <<"'end_time'">>)
    ELSE Gave([chunk_id |-> generate_chunk_hash(original_file, segment.id).val,
                   text |-> TextContent(segment),
                   start_time |-> segment.start_time,
                   end_time |-> segment.end_time,
                   original_file |-> original_file,
                   segment_id |-> segment.id,
                   metadata |-> meta])

\* The body of a response; a key that is not in the body is Missing.
Body(message, note, error, details, segments_sent, bucket, file, meta) ==
    [message |-> message, note |-> note, error |-> error, details |-> details,
     segments_sent |-> segments_sent, source_bucket |-> bucket,
     source_file |-> file, metadata |-> meta]

NoChunkingResponse ==
    [statusCode |-> 0,
     body |-> Body(Missing, Missing, Missing, Missing, Missing, Missing,
                   Missing, Missing)]

ERROR_MESSAGE_PREFIX == <<"Error in chunking module">>

\* error_handler.handle_error(exception, message)
handle_error(exception, message) ==
    [statusCode |-> 500,
     body |-> Body(Str(message), Missing, Str(<<exception.type>>),
                   Str(exception.msg), Missing, Missing, Missing, Missing)]

NoRecordsResponse ==
    [statusCode |-> 200,
     body |-> Body(Str(<<"No records to process">>),
                   Str(<<"Event contained no records to process">>),
                   Missing, Missing, Missing, Missing, Missing, Missing)]

CompletedResponse(count, bucket, key, meta) ==
    [statusCode |-> 200,
     body |-> Body(Str(<<"Chunking completed successfully">>),
                   Str(<<"Audio segments have been sent to SQS queue">>),
                   Missing, Missing, PyInt(count), Str(bucket), Str(key), meta)]

NoSendArgs ==
    [audio_segments |-> <<>>, original_file |-> Missing, metadata |-> Missing,
     queue_url |-> Missing]
SendArgs(segments, original_file, meta, queue_url) ==
    [audio_segments |-> segments, original_file |-> original_file,
     metadata |-> meta, queue_url |-> queue_url]

ChunkingIdle ==
    /\ chunk_event = NoEvent
    /\ s3_object = NoObject
    /\ s3_reads = 0
    /\ sqs_queue_env = FALSE
    /\ sqs_fails_at = 0
    /\ send_args = NoSendArgs
    /\ send_idx = 0
    /\ sent_count = 0
    /\ sqs_messages = <<>>
    /\ send_outcome = NothingYet
    /\ chunking_response = NoChunkingResponse
    /\ chunking_pc = "idle"

\* lambda_handler(event, context) is entered.
HandlerCalled ==
    /\ chunk_event \in ChunkEvents
    /\ s3_object \in S3Objects
    /\ sqs_queue_env \in BOOLEAN
    /\ sqs_fails_at \in 0..MaxSegments
    /\ send_args = NoSendArgs
    /\ chunking_pc = "handler"

\* send_to_sqs(audio_segments, original_file, metadata, queue_url) is
\* entered by a caller of its own.
SendCalled ==
    /\ chunk_event = NoEvent
    /\ s3_object = NoObject
    /\ sqs_queue_env \in BOOLEAN
    /\ sqs_fails_at \in 0..MaxSegments
    /\ \E segs \in SegmentLists(MaxSegments),
          f \in {Str(<<>>), Str(MediaFile)},
          m \in {PyDict(<<>>), SpeakerMetadata},
          q \in {PyNone, Str(QueueUrl)} :
          send_args = SendArgs(segs, f, m, q)
    /\ chunking_pc = "send"

ChunkingCalled ==
    /\ HandlerCalled \/ SendCalled
    /\ s3_reads = 0
    /\ send_idx = 0
    /\ sent_count = 0
    /\ sqs_messages = <<>>
    /\ send_outcome = NothingYet
    /\ chunking_response = NoChunkingResponse

\* lambda_handler, lines 205-221 and 251-253: the event is None, or it has
\* no record with a bucket and a key.
HandlerWithoutRecord ==
    /\ chunking_pc = "handler"
    /\ \/ chunk_event.kind = "None"
       \/ ~extract_s3_details(chunk_event).found
    /\ chunking_response' =
          IF chunk_event.kind = "None"
          THEN handle_error(Raised("ValueError", <<"Event cannot be None">>),
                            ERROR_MESSAGE_PREFIX)
          ELSE NoRecordsResponse
    /\ chunking_pc' = "done"
    /\ UNCHANGED <<chunk_event, s3_object, s3_reads, sqs_queue_env,
                   sqs_fails_at, send_args, send_idx, sent_count,
                   sqs_messages, send_outcome>>

\* lambda_handler, lines 223-226 and 251-253: get_s3_object raises.
HandlerLoadFails ==
    /\ chunking_pc = "handler"
    /\ chunk_event.kind = "dict"
    /\ extract_s3_details(chunk_event).found
    /\ LET s3_details == extract_s3_details(chunk_event)
           loaded == get_s3_object(s3_details.bucket, s3_details.key)
       IN  /\ loaded.kind = "raised"
           /\ chunking_response' = handle_error(loaded, ERROR_MESSAGE_PREFIX)
    /\ s3_reads' = s3_reads + 1
    /\ chunking_pc' = "done"
    /\ UNCHANGED <<chunk_event, s3_object, sqs_queue_env, sqs_fails_at,
                   send_args, send_idx, sent_count, sqs_messages,
                   send_outcome>>

\* lambda_handler, lines 223-235: the JSON is loaded and send_to_sqs is
\* called with its segments, its original_file (the key when it has none)
\* and the metadata of the record.
HandlerLoads ==
    /\ chunking_pc = "handler"
    /\ chunk_event.kind = "dict"
    /\ extract_s3_details(chunk_event).found
    /\ LET s3_details == extract_s3_details(chunk_event)
           loaded == get_s3_object(s3_details.bucket, s3_details.key)
           json_data == loaded.val
           original_file == Get(json_data, "original_file", PyNone)
       IN  /\ loaded.kind = "returned"
           /\ send_args' =
                SendArgs(process_audio_segments(json_data),
                         IF Falsy(original_file) THEN Str(s3_details.key)
                         ELSE original_file,
                         s3_details.metadata, PyNone)
    /\ s3_reads' = s3_reads + 1
    /\ chunking_pc' = "send"
    /\ UNCHANGED <<chunk_event, s3_object, sqs_queue_env, sqs_fails_at,
                   send_idx, sent_count, sqs_messages, send_outcome,
                   chunking_response>>

\* send_to_sqs, lines 160-162: the queue URL is the argument or the
\* environment's; get_sqs_queue_url raises when there is neither.
SendResolvesQueue ==
    /\ chunking_pc = "send"
    /\ IF Falsy(send_args.queue_url) /\ ~sqs_queue_env
       THEN /\ send_outcome' =
                 Raised("ValueError",
                        <<"SQS_QUEUE_URL environment variable is not set">>)
            /\ chunking_pc' = "sent"
            /\ UNCHANGED send_idx
       ELSE /\ send_idx' = 1
            /\ chunking_pc' = "loop"
            /\ UNCHANGED send_outcome
    /\ UNCHANGED <<chunk_event, s3_object, s3_reads, sqs_queue_env,
                   sqs_fails_at, send_args, sent_count, sqs_messages,
                   chunking_response>>

\* The message of the segment the loop is at.
CurrentMessage ==
    BuildMessage(send_args.audio_segments[send_idx], send_args.original_file,
                 send_args.metadata)

\* One pass of the loop, lines 164-187: the message is built and sent.
SendSegment ==
    /\ chunking_pc = "loop"
    /\ send_idx <= Len(send_args.audio_segments)
    /\ CurrentMessage.kind = "returned"
    /\ send_idx # sqs_fails_at
    /\ sqs_messages' = Append(sqs_messages, CurrentMessage.val)
    /\ sent_count' = sent_count + 1
    /\ send_idx' = send_idx + 1
    /\ UNCHANGED <<chunk_event, s3_object, s3_reads, sqs_queue_env,
                   sqs_fails_at, send_args, send_outcome, chunking_response,
                   chunking_pc>>

\* One pass of the loop, lines 164-185 and 188-190: building the message
\* or send_message raises, and the exception is raised again.
SendSegmentFails ==
    /\ chunking_pc = "loop"
    /\ send_idx <= Len(send_args.audio_segments)
    /\ \/ CurrentMessage.kind = "raised"
       \/ send_idx = sqs_fails_at
    /\ send_outcome' =
          IF CurrentMessage.kind = "raised" THEN CurrentMessage
          ELSE Raised("ClientError", <<"An error occurred (SendMessage)">>)
    /\ chunking_pc' = "sent"
    /\ UNCHANGED <<chunk_event, s3_object, s3_reads, sqs_queue_env,
                   sqs_fails_at, send_args, send_idx, sent_count,
                   sqs_messages, chunking_response>>

\* Line 192: return sent_count.
SendReturns ==
    /\ chunking_pc = "loop"
    /\ send_idx > Len(send_args.audio_segments)
    /\ send_outcome' = Gave(sent_count)
    /\ chunking_pc' = "sent"
    /\ UNCHANGED <<chunk_event, s3_object, s3_reads, sqs_queue_env,
                   sqs_fails_at, send_args, send_idx, sent_count,
                   sqs_messages, chunking_response>>

\* lambda_handler, lines 235-253: the response after send_to_sqs; the
\* caller of a direct call takes what send_to_sqs gave.
AfterSend ==
    /\ chunking_pc = "sent"
    /\ chunking_response' =
          IF chunk_event.kind # "dict" THEN chunking_response
          ELSE IF send_outcome.kind = "raised"
          THEN handle_error(send_outcome, ERROR_MESSAGE_PREFIX)
          ELSE CompletedResponse(send_outcome.val,
                                 extract_s3_details(chunk_event).bucket,
                                 extract_s3_details(chunk_event).key,
                                 extract_s3_details(chunk_event).metadata)
    /\ chunking_pc' = "done"
    /\ UNCHANGED <<chunk_event, s3_object, s3_reads, sqs_queue_env,
                   sqs_fails_at, send_args, send_idx, sent_count,
                   sqs_messages, send_outcome>>

ChunkingNext ==
    \/ HandlerWithoutRecord
    \/ HandlerLoadFails
    \/ HandlerLoads
    \/ SendResolvesQueue
    \/ SendSegment
    \/ SendSegmentFails
    \/ SendReturns
    \/ AfterSend

----------------------------------------------------------------------------
(* transcribe_handler.lambda_handler.                                      *)

OutputBucket == <<"o", "u", "t", "p", "u", "t">>

\* An event in one of the three formats the handler reads: the EventBridge
\* S3 event ('detail' with 'requestParameters'), the Step Functions input
\* ('detail' with 'records') and the S3 notification ('Records').
TranscribeEvent(format, has_record, bucket, key) ==
    [format |-> format, has_record |-> has_record, bucket |-> bucket,
     key |-> key]

NoTranscribeEvent == TranscribeEvent("none", FALSE, Missing, Missing)

TranscribeEvents ==
    {TranscribeEvent(f, h, b, k) :
        f \in {"eventbridge", "stepfunctions", "s3"},
        h \in BOOLEAN,
        b \in {Missing, Str(<<>>), Str(BucketName)},
        k \in {Missing, Str(MediaFile)}}

\* Lines 27-46: the records of the event, or the KeyError of
\* requestParameters['bucketName'] or ['key'].
RecordsOf(event) ==
    IF event.format = "eventbridge"
    THEN IF event.bucket.t = "missing" THEN Raised("KeyError", <<"'bucketName'">>)
         ELSE IF event.key.t = "missing" THEN Raised("KeyError", <<"'key'">>)
         ELSE Gave(<<S3Record(event.bucket, event.key, Missing)>>)
    ELSE IF event.has_record
    THEN Gave(<<S3Record(event.bucket, event.key, Missing)>>)
    ELSE Gave(<<>>)

\* Lines 55-59: the record has a bucket and a key.
HasBucketAndKey(record) ==
    /\ ~Falsy(Get(record, "bucket", PyNone))
    /\ ~Falsy(Get(record, "key", PyNone))

\* Lines 48-63: there is a first record and it has a bucket and a key.
Processable(records) ==
    IF records.kind = "raised" THEN FALSE
    ELSE IF records.val = <<>> THEN FALSE
    ELSE HasBucketAndKey(records.val[1])

\* The response: the body and, at the top, detail.records.
TranscribeResponse(statusCode, body, records) ==
    [statusCode |-> statusCode, body |-> body, records |-> records]

NoTranscribeResponse ==
    TranscribeResponse(0, Body(Missing, Missing, Missing, Missing, Missing,
                               Missing, Missing, Missing), <<>>)

\* {'statusCode': 400, 'body': json.dumps(text)}
BadRequest(text) ==
    TranscribeResponse(400, Body(Str(text), Missing, Missing, Missing, Missing,
                                 Missing, Missing, Missing), <<>>)

\* The transcribe module's error_handler.handle_error(exception, message)
ErrorResponse(exception, message) ==
    TranscribeResponse(500, Body(Str(message), Missing, Str(exception.msg),
                                 Missing, Missing, Missing, Missing, Missing),
                       <<>>)

\* Lines 76-92: the response of a transcription that completed.  The body
\* has no 'metadata' key and the record no 'metadata' field.
TranscriptionCompleted(bucket, key, output_key) ==
    TranscribeResponse(
        200,
        Body(Str(<<"Transcription completed successfully">>), Missing, Missing,
             Missing, Missing, bucket, key, Missing),
        <<S3Record(Str(OutputBucket), output_key, Missing)>>)

TranscribeIdle ==
    /\ transcribe_event = NoTranscribeEvent
    /\ source_metadata = Missing
    /\ media_fails = FALSE
    /\ metadata_reads = <<>>
    /\ transcribe_response = NoTranscribeResponse
    /\ transcribe_pc = "idle"

TranscribeCalled ==
    /\ transcribe_event \in TranscribeEvents
    /\ source_metadata \in {Missing, PyDict(<<>>), SpeakerMetadata}
    /\ media_fails \in BOOLEAN
    /\ metadata_reads = <<>>
    /\ transcribe_response = NoTranscribeResponse
    /\ transcribe_pc = "handler"

\* Lines 23-63 and 96-97: the event has no record, or no bucket or key.
TranscribeRejects ==
    /\ transcribe_pc = "handler"
    /\ LET records == RecordsOf(transcribe_event)
       IN  /\ ~Processable(records)
           /\ transcribe_response' =
                IF records.kind = "raised"
                THEN ErrorResponse(records,
                                   <<"Error processing transcription request">>)
                ELSE IF records.val = <<>>
                THEN BadRequest(<<"No records found in event">>)
                ELSE BadRequest(<<"Missing bucket or key information">>)
    /\ transcribe_pc' = "done"
    /\ UNCHANGED <<transcribe_event, source_metadata, media_fails,
                   metadata_reads>>

\* Lines 55-69: bucket and key are found, the services are made.
TranscribeStarts ==
    /\ transcribe_pc = "handler"
    /\ Processable(RecordsOf(transcribe_event))
    /\ transcribe_pc' = "process"
    /\ UNCHANGED <<transcribe_event, source_metadata, media_fails,
                   metadata_reads, transcribe_response>>

\* Lines 72-94: process_media returns the key of the transcription.
TranscribeCompletes ==
    /\ transcribe_pc = "process"
    /\ ~media_fails
    /\ transcribe_response' =
          TranscriptionCompleted(transcribe_event.bucket, transcribe_event.key,
                                 Str(SourceKey))
    /\ transcribe_pc' = "done"
    /\ UNCHANGED <<transcribe_event, source_metadata, media_fails,
                   metadata_reads>>

\* Lines 72 and 96-97: process_media raises.
TranscribeFails ==
    /\ transcribe_pc = "process"
    /\ media_fails
    /\ transcribe_response' =
          ErrorResponse(Raised("Exception", <<"Transcription job failed">>),
                        <<"Error processing transcription request">>)
    /\ transcribe_pc' = "done"
    /\ UNCHANGED <<transcribe_event, source_metadata, media_fails,
                   metadata_reads>>

TranscribeNext ==
    \/ TranscribeRejects
    \/ TranscribeStarts
    \/ TranscribeCompletes
    \/ TranscribeFails

----------------------------------------------------------------------------
(* question_handler: validate_email, validate_api_key_or_raise,            *)
(* parse_and_validate_request, process_question and lambda_handler.        *)

\* [a-zA-Z0-9._%+-] and [a-zA-Z0-9.-]
LocalPartChars == AsciiLetters \cup DigitSet \cup {".", "_", "%", "+", "-"}
DomainChars == AsciiLetters \cup DigitSet \cup {".", "-"}

\* The characters lo..hi of s, none when lo > hi, are all in the class.
AllIn(s, lo, hi, class) == \A i \in lo..hi : s[i] \in class

\* re.match(r'^[a-zA-Z0-9._%+-]+@[a-zA-Z0-9.-]+\.[a-zA-Z]{2,}$', email):
\* "$" also matches before a newline that ends the string.
validate_email(email) ==
    LET n == IF email # <<>> /\ email[Len(email)] = "\n"
             THEN Len(email) - 1 ELSE Len(email)
    IN  \E at \in 2..n : \E dot \in (at + 2)..(n - 2) :
            /\ email[at] = "@"
            /\ email[dot] = "."
            /\ AllIn(email, 1, at - 1, LocalPartChars)
            /\ AllIn(email, at + 1, dot - 1, DomainChars)
            /\ AllIn(email, dot + 1, n, AsciiLetters)

GoodKey == <<"k", "e", "y", "-", "1">>
OtherKey == <<"k", "e", "y", "-", "2">>

ListedEmail == <<"a", "@", "b", ".", "c", "o">>
UpperEmail == <<"A", "@", "B", ".", "C", "O">>
NoTldEmail == <<"a", "@", "b">>
ShortTldEmail == <<"a", "@", "b", ".", "c">>
NoLocalEmail == <<"@", "b", ".", "c", "o">>

Questions == {Missing, PyNone, Str(<<>>), Str(<<" ", " ">>), PyInt(5),
              Str(<<"w", "h", "o", "?">>)}
Emails == {Missing, Str(<<>>), PyInt(5), Str(ListedEmail), Str(UpperEmail),
           Str(NoTldEmail), Str(ShortTldEmail), Str(NoLocalEmail)}

\* The event: headers['x-api-key'] (Missing also when there are no
\* headers) and the body: no 'body' key, None, a str that is not JSON, the
\* JSON of a list, or the JSON of an object with its two fields.
QuestionEvent(api_key, body, question, email) ==
    [api_key |-> api_key, body |-> body, question |-> question, email |-> email]

NoQuestionEvent == QuestionEvent(Missing, "none", Missing, Missing)

QuestionEvents ==
    {QuestionEvent(k, b, Missing, Missing) :
        k \in {Missing, Str(<<>>), Str(GoodKey), Str(OtherKey)},
        b \in {"absent", "None", "invalid_json", "list"}}
    \cup {QuestionEvent(k, "object", q, e) :
        k \in {Missing, Str(<<>>), Str(GoodKey), Str(OtherKey)},
        q \in Questions, e \in Emails}

\* validate_api_key_or_raise(headers)
validate_api_key_or_raise(api_key, expected_key) ==
    IF Falsy(api_key) \/ Falsy(expected_key)
    THEN Raised("AuthorizationError", <<"Missing API key">>)
    ELSE IF api_key # expected_key
    THEN Raised("AuthorizationError", <<"Invalid API key">>)
    ELSE Gave(0)

\* not value, for a field of the body
FalsyField(value) ==
    \/ value.t \in {"missing", "none"}
    \/ value.t = "str" /\ value.s = <<>>
    \/ value.t = "int" /\ value.n = 0

\* str.strip() leaves nothing
Blank(s) == \A i \in 1..Len(s) : s[i] \in SpaceChars

\* parse_and_validate_request(event), lines 312-328: up to request.validate()
ParseAndValidate(event) ==
    CASE event.body = "absent" ->
           Raised("ValidationError", <<"Missing request body">>)
      [] event.body = "invalid_json" ->
           Raised("ValidationError", <<"Invalid JSON in request body: ">>)
      [] event.body \in {"None", "list"} ->
           Raised("ValidationError", <<"Request body must be a JSON object">>)
      [] OTHER ->
           IF FalsyField(event.question) \/ FalsyField(event.email)
           THEN Raised("ValidationError",
                       <<"Missing required fields: question and email">>)
           ELSE IF event.question.t # "str" \/ Blank(event.question.s)
           THEN Raised("ValidationError",
                       <<"Question must be a non-empty string about the transcripts">>)
           ELSE IF event.email.t # "str" \/ ~validate_email(event.email.s)
           THEN Raised("ValidationError", <<"Invalid email format">>)
           ELSE Gave(0)

\* create_response(status_code, body): the body is {'error': ...} or the
\* result of process_question.
QuestionResponse(statusCode, error, result) ==
    [statusCode |-> statusCode, error |-> error, result |-> result]

NoQuestionResponse == QuestionResponse(0, Missing, Missing)

\* Variant: an authorization failure is answered with 403.
ResponseFor_Forbidden(exception) ==
    CASE exception.type = "ValidationError" ->
           QuestionResponse(400, Str(exception.msg), Missing)
      [] exception.type = "AuthorizationError" ->
           QuestionResponse(403, Str(exception.msg), Missing)
      [] exception.type = "ConfigurationError" ->
           QuestionResponse(500, Str(<<"Internal server error">>), Missing)
      [] exception.type = "QuestionProcessingError" ->
           QuestionResponse(500, Str(<<"Error processing request">>), Missing)
      [] OTHER ->
           QuestionResponse(500, Str(<<"Internal server error">>), Missing)

\* The except clauses of lambda_handler, lines 413-431
ResponseFor(exception) ==
    CASE exception.type = "ValidationError" ->
           QuestionResponse(400, Str(exception.msg), Missing)
      [] exception.type = "AuthorizationError" ->
           QuestionResponse(401, Str(exception.msg), Missing)
      [] exception.type = "ConfigurationError" ->
           QuestionResponse(500, Str(<<"Internal server error">>), Missing)
      [] exception.type = "QuestionProcessingError" ->
           QuestionResponse(500, Str(<<"Error processing request">>), Missing)
      [] OTHER ->
           QuestionResponse(500, Str(<<"Internal server error">>), Missing)

\* except Exception as e: raise QuestionProcessingError(...), lines 379-381
ProcessingError(msg) ==
    Raised("QuestionProcessingError", <<"Failed to process question: ">> \o msg)

QuestionIdle ==
    /\ question_event = NoQuestionEvent
    /\ expected_api_key = PyNone
    /\ email_authorized = FALSE
    /\ ai_keys_available = FALSE
    /\ openai_fails = FALSE
    /\ pinecone_fails = FALSE
    /\ question_calls = <<>>
    /\ question_response = NoQuestionResponse
    /\ question_pc = "idle"

QuestionCalled ==
    /\ question_event \in QuestionEvents
    /\ expected_api_key \in {PyNone, Str(GoodKey)}
    /\ email_authorized \in BOOLEAN
    /\ ai_keys_available \in BOOLEAN
    /\ openai_fails \in BOOLEAN
    /\ pinecone_fails \in BOOLEAN
    /\ question_calls = <<>>
    /\ question_response = NoQuestionResponse
    /\ question_pc = "key"

QuestionFrame ==
    UNCHANGED <<question_event, expected_api_key, email_authorized,
                ai_keys_available, openai_fails, pinecone_fails>>

\* Step 1, line 402: validate_api_key_or_raise(event.get('headers', {}))
ValidateApiKey ==
    /\ question_pc = "key"
    /\ question_calls' = Append(question_calls, "get_api_key")
    /\ LET checked == validate_api_key_or_raise(question_event.api_key,
                                                expected_api_key)
       IN  IF checked.kind = "raised"
           THEN /\ question_response' = ResponseFor(checked)
                /\ question_pc' = "done"
           ELSE /\ question_pc' = "parse"
                /\ UNCHANGED question_response
    /\ QuestionFrame

\* Step 2, lines 312-328: the body is parsed and the request validated.
ParseRequest ==
    /\ question_pc = "parse"
    /\ question_calls' = Append(question_calls, "parse_body")
    /\ LET parsed == ParseAndValidate(question_event)
       IN  IF parsed.kind = "raised"
           THEN /\ question_response' = ResponseFor(parsed)
                /\ question_pc' = "done"
           ELSE /\ question_pc' = "auth"
                /\ UNCHANGED question_response
    /\ QuestionFrame

\* Step 2, lines 330-334: _auth_util.is_authorized(email)
CheckAuthorization ==
    /\ question_pc = "auth"
    /\ question_calls' = Append(question_calls, "is_authorized")
    /\ IF ~email_authorized
       THEN /\ question_response' =
                 ResponseFor(Raised("AuthorizationError",
                                    <<"Email not authorized: ">>
                                    \o question_event.email.s))
            /\ question_pc' = "done"
       ELSE /\ question_pc' = "setup"
            /\ UNCHANGED question_response
    /\ QuestionFrame

\* Step 3, lines 355-357 and 336-346: setup_ai_services()
SetupServices ==
    /\ question_pc = "setup"
    /\ IF ~ai_keys_available
       THEN /\ question_response' =
                 ResponseFor(ProcessingError(
                     <<"Failed to retrieve required API keys">>))
            /\ question_pc' = "done"
       ELSE /\ question_pc' = "embed"
            /\ UNCHANGED question_response
    /\ UNCHANGED question_calls
    /\ QuestionFrame

\* Step 3, lines 359-365: openai_client.embeddings.create(...)
EmbedQuestion ==
    /\ question_pc = "embed"
    /\ question_calls' = Append(question_calls, "openai")
    /\ IF openai_fails
       THEN /\ question_response' = ResponseFor(ProcessingError(<<"OpenAI Error">>))
            /\ question_pc' = "done"
       ELSE /\ question_pc' = "query"
            /\ UNCHANGED question_response
    /\ QuestionFrame

\* Steps 3 and 4, lines 367-377 and 411: the index is queried and the
\* matches are returned.
QueryIndex ==
    /\ question_pc = "query"
    /\ question_calls' = Append(question_calls, "pinecone")
    /\ question_response' =
          IF pinecone_fails
          THEN ResponseFor(ProcessingError(<<"Pinecone Error">>))
          ELSE QuestionResponse(200, Missing, Str(<<"pinecone_matches">>))
    /\ question_pc' = "done"
    /\ QuestionFrame

QuestionNext ==
    \/ ValidateApiKey
    \/ ParseRequest
    \/ CheckAuthorization
    \/ SetupServices
    \/ EmbedQuestion
    \/ QueryIndex

----------------------------------------------------------------------------
(* auth_util.AuthUtil: _is_cache_stale, _load_access_list, is_authorized   *)
(* and refresh_access_list.                                                *)

\* self._cache_ttl
CacheTtl == 300

LowerAlphabet ==
    <<"a", "b", "c", "d", "e", "f", "g", "h", "i", "j", "k", "l", "m",
      "n", "o", "p", "q", "r", "s", "t", "u", "v", "w", "x", "y", "z">>
UpperAlphabet ==
    <<"A", "B", "C", "D", "E", "F", "G", "H", "I", "J", "K", "L", "M",
      "N", "O", "P", "Q", "R", "S", "T", "U", "V", "W", "X", "Y", "Z">>

\* str.lower(), on ASCII text
LowerOf(c) ==
    IF c \in UpperChars
    THEN LowerAlphabet[CHOOSE i \in 1..26 : UpperAlphabet[i] = c]
    ELSE c
Lower(s) == [i \in 1..Len(s) |-> LowerOf(s[i])]

NeverRefreshed == [set |-> FALSE, at |-> 0]
RefreshedAt(t) == [set |-> TRUE, at |-> t]

\* Variant: the list is stale from 300 seconds on.
is_cache_stale_AtTtl(last_refresh, now) ==
    IF ~last_refresh.set THEN TRUE
    ELSE now - last_refresh.at >= CacheTtl

\* _is_cache_stale(), with datetime.now() = now
is_cache_stale(last_refresh, now) ==
    IF ~last_refresh.set THEN TRUE
    ELSE now - last_refresh.at > CacheTtl

\* [row[0].strip().lower() for row in reader if row]
RECURSIVE ParseAccessList(_)
ParseAccessList(rows) ==
    IF rows = <<>> THEN <<>>
    ELSE IF Head(rows) = <<>> THEN ParseAccessList(Tail(rows))
    ELSE <<Lower(Strip(Head(rows)[1]))>> \o ParseAccessList(Tail(rows))

OtherEmail == <<"c", "@", "d", ".", "c", "o">>
MixedEmail == <<"A", "@", "b", ".", "c", "o">>

\* What a load finds: no URL or an S3 or parsing error, or the rows of the
\* CSV file (a blank line is a row without fields).
LoadFailed == [ok |-> FALSE, rows |-> <<>>]
LoadedRows(rows) == [ok |-> TRUE, rows |-> rows]

AccessFiles ==
    {<<>>,
     <<<<ListedEmail>>>>,
     <<<<<<" ">> \o UpperEmail \o <<" ">>, <<"Ann">>>>, <<>>, <<OtherEmail>>>>}

LoadOutcomes == {LoadFailed} \cup {LoadedRows(rows) : rows \in AccessFiles}

AskedEmails == {ListedEmail, MixedEmail, OtherEmail}

\* email in self._authorized_emails
InList(email, emails) == \E i \in 1..Len(emails) : emails[i] = email

NoCheck == [email |-> <<>>, result |-> FALSE, load |-> "none"]
Check(email, result, load) == [email |-> email, result |-> result, load |-> load]

AuthIdle ==
    /\ auth_emails = <<>>
    /\ auth_last_refresh = NeverRefreshed
    /\ auth_now = 0
    /\ auth_loaded_rows = <<>>
    /\ auth_attempts = 0
    /\ auth_last_check = NoCheck
    /\ auth_checks = 0
    /\ auth_pc = "idle"

\* AuthUtil(): __init__ has made the first load, which succeeded or failed.
AuthCalled ==
    /\ \E loaded \in LoadOutcomes :
          /\ auth_emails = ParseAccessList(loaded.rows)
          /\ auth_last_refresh =
                IF loaded.ok THEN RefreshedAt(0) ELSE NeverRefreshed
          /\ auth_loaded_rows = loaded.rows
    /\ auth_now = 0
    /\ auth_attempts = 1
    /\ auth_last_check = NoCheck
    /\ auth_checks = 0
    /\ auth_pc = "ready"

\* Time passes between two calls.
ClockAdvances ==
    /\ auth_pc = "ready"
    /\ \E d \in {100, 200, 201} :
          /\ auth_now + d <= MaxClock
          /\ auth_now' = auth_now + d
    /\ UNCHANGED <<auth_emails, auth_last_refresh, auth_loaded_rows,
                   auth_attempts, auth_last_check, auth_checks, auth_pc>>

\* is_authorized(email), the list is not stale: lines 75 and 79-83.
CheckOnFreshList ==
    /\ auth_pc = "ready"
    /\ auth_checks < MaxChecks
    /\ ~is_cache_stale(auth_last_refresh, auth_now)
    /\ \E email \in AskedEmails :
          auth_last_check' =
              Check(email, InList(Lower(email), auth_emails), "none")
    /\ auth_checks' = auth_checks + 1
    /\ UNCHANGED <<auth_emails, auth_last_refresh, auth_now, auth_loaded_rows,
                   auth_attempts, auth_pc>>

\* is_authorized(email), the list is stale and the load succeeds: lines
\* 75-77, 30-57 and 79-83.
CheckAfterReload ==
    /\ auth_pc = "ready"
    /\ auth_checks < MaxChecks
    /\ is_cache_stale(auth_last_refresh, auth_now)
    /\ \E email \in AskedEmails, rows \in AccessFiles :
          /\ auth_emails' = ParseAccessList(rows)
          /\ auth_loaded_rows' = rows
          /\ auth_last_check' =
                Check(email, InList(Lower(email), ParseAccessList(rows)),
                      "loaded")
    /\ auth_last_refresh' = RefreshedAt(auth_now)
    /\ auth_attempts' = auth_attempts + 1
    /\ auth_checks' = auth_checks + 1
    /\ UNCHANGED <<auth_now, auth_pc>>

\* is_authorized(email), the list is stale and the load fails: lines 75-77,
\* 30-36 or 59-62, and 79-83.
CheckAfterFailedLoad ==
    /\ auth_pc = "ready"
    /\ auth_checks < MaxChecks
    /\ is_cache_stale(auth_last_refresh, auth_now)
    /\ \E email \in AskedEmails :
          auth_last_check' =
              Check(email, InList(Lower(email), auth_emails), "failed")
    /\ auth_attempts' = auth_attempts + 1
    /\ auth_checks' = auth_checks + 1
    /\ UNCHANGED <<auth_emails, auth_last_refresh, auth_now, auth_loaded_rows,
                   auth_pc>>

\* refresh_access_list(): the load is made whatever the age of the list.
ForcedRefresh ==
    /\ auth_pc = "ready"
    /\ auth_attempts < MaxChecks + 1
    /\ \E loaded \in LoadOutcomes :
          IF loaded.ok
          THEN /\ auth_emails' = ParseAccessList(loaded.rows)
               /\ auth_loaded_rows' = loaded.rows
               /\ auth_last_refresh' = RefreshedAt(auth_now)
          ELSE UNCHANGED <<auth_emails, auth_loaded_rows, auth_last_refresh>>
    /\ auth_attempts' = auth_attempts + 1
    /\ UNCHANGED <<auth_now, auth_last_check, auth_checks, auth_pc>>

AuthNext ==
    \/ ClockAdvances
    \/ CheckOnFreshList
    \/ CheckAfterReload
    \/ CheckAfterFailedLoad
    \/ ForcedRefresh

----------------------------------------------------------------------------
(* secrets.SecretsService: _load_secrets, get_secret and invalidate_cache. *)

SecretKeys == {"openai_api_key", "access_list_url"}

\* key.upper()
EnvName(key) ==
    CASE key = "openai_api_key" -> "OPENAI_API_KEY"
      [] key = "access_list_url" -> "ACCESS_LIST_URL"
      [] OTHER -> key
EnvNames == {EnvName(k) : k \in SecretKeys}

StoredValue == Str(<<"from secrets manager">>)
EnvValue == Str(<<"from environment">>)

EmptyCache == [k \in SecretKeys |-> Missing]

\* What get_secret_value gives: a ClientError, a SecretString that is not
\* JSON, or the JSON of a dict with some of the keys.
SecretsManagerResults ==
    {[kind |-> "ClientError", secrets |-> EmptyCache],
     [kind |-> "invalid_json", secrets |-> EmptyCache]}
    \cup {[kind |-> "dict", secrets |-> [k \in SecretKeys |->
                IF k \in present THEN StoredValue ELSE Missing]] :
            present \in SUBSET SecretKeys}

\* _SECRETS_CACHE.update(secrets_dict)
Updated(cache, secrets) ==
    [k \in SecretKeys |-> IF secrets[k].t = "missing" THEN cache[k]
                          ELSE secrets[k]]

LoadResult(called, loaded, cache, raised) ==
    [called |-> called, loaded |-> loaded, cache |-> cache, raised |-> raised]

\* Variant: a load that failed with a ClientError counts as made.
load_secrets_FailureRecorded(loaded, cache, fallback, sm) ==
    IF loaded THEN LoadResult(FALSE, loaded, cache, "none")
    ELSE IF sm.kind = "dict"
    THEN LoadResult(TRUE, TRUE, Updated(cache, sm.secrets), "none")
    ELSE IF sm.kind = "ClientError"
    THEN LoadResult(TRUE, TRUE, cache,
                    IF fallback THEN "none" ELSE "ClientError")
    ELSE LoadResult(TRUE, loaded, cache, "JSONDecodeError")

\* _load_secrets(), where sm is what get_secret_value gives if called
load_secrets(loaded, cache, fallback, sm) ==
    IF loaded THEN LoadResult(FALSE, loaded, cache, "none")
    ELSE IF sm.kind = "dict"
    THEN LoadResult(TRUE, TRUE, Updated(cache, sm.secrets), "none")
    ELSE IF sm.kind = "ClientError"
    THEN LoadResult(TRUE, loaded, cache,
                    IF fallback THEN "none" ELSE "ClientError")
    ELSE LoadResult(TRUE, loaded, cache, "JSONDecodeError")

\* The n-th call of get_secret: its key and what it returned.
SecretResult(n, key, value, raised) ==
    [n |-> n, key |-> key, value |-> value, raised |-> raised]
NoSecretResult == SecretResult(0, "none", Missing, FALSE)

SecretsIdle ==
    /\ secrets_cache = EmptyCache
    /\ secrets_loaded = FALSE
    /\ use_env_fallback = FALSE
    /\ secrets_env = [n \in EnvNames |-> Missing]
    /\ sm_calls = 0
    /\ loaded_since = FALSE
    /\ secret_last = NoSecretResult
    /\ secret_ops = 0
    /\ secrets_pc = "idle"

\* SecretsService(): nothing is loaded; USE_ENV_FALLBACK is read.
SecretsCalled ==
    /\ secrets_cache = EmptyCache
    /\ secrets_loaded = FALSE
    /\ use_env_fallback \in BOOLEAN
    /\ secrets_env \in [EnvNames -> {Missing, Str(<<>>), EnvValue}]
    /\ sm_calls = 0
    /\ loaded_since = FALSE
    /\ secret_last = NoSecretResult
    /\ secret_ops = 0
    /\ secrets_pc = "ready"

\* get_secret(key), lines 72-73: the key is in the cache.
GetCachedSecret ==
    /\ secrets_pc = "ready"
    /\ secret_ops < MaxSecretOps
    /\ \E key \in SecretKeys :
          /\ secrets_cache[key].t # "missing"
          /\ secret_last' = SecretResult(secret_last.n + 1, key, secrets_cache[key], FALSE)
    /\ secret_ops' = secret_ops + 1
    /\ UNCHANGED <<secrets_cache, secrets_loaded, use_env_fallback,
                   secrets_env, sm_calls, loaded_since, secrets_pc>>

\* get_secret(key), lines 75-95: the key is not in the cache; the secrets
\* are loaded if they were not, then the cache and the environment are
\* looked at; any exception gives None.
GetUncachedSecret ==
    /\ secrets_pc = "ready"
    /\ secret_ops < MaxSecretOps
    /\ \E key \in SecretKeys, sm \in SecretsManagerResults :
          LET load == load_secrets(secrets_loaded, secrets_cache,
                                   use_env_fallback, sm)
              env_value == secrets_env[EnvName(key)]
          IN  /\ secrets_cache[key].t = "missing"
              /\ secrets_loaded' = load.loaded
              /\ sm_calls' = IF load.called THEN sm_calls + 1 ELSE sm_calls
              /\ loaded_since' =
                    IF load.called /\ sm.kind = "dict" THEN TRUE
                    ELSE loaded_since
              /\ IF load.raised # "none"
                 THEN /\ secrets_cache' = load.cache
                      /\ secret_last' = SecretResult(secret_last.n + 1, key, PyNone, FALSE)
                 ELSE IF load.cache[key].t # "missing"
                 THEN /\ secrets_cache' = load.cache
                      /\ secret_last' = SecretResult(secret_last.n + 1, key, load.cache[key], FALSE)
                 ELSE IF use_env_fallback /\ ~Falsy(env_value)
                 THEN /\ secrets_cache' = [load.cache EXCEPT ![key] = env_value]
                      /\ secret_last' = SecretResult(secret_last.n + 1, key, env_value, FALSE)
                 ELSE /\ secrets_cache' = load.cache
                      /\ secret_last' = SecretResult(secret_last.n + 1, key, PyNone, FALSE)
    /\ secret_ops' = secret_ops + 1
    /\ UNCHANGED <<use_env_fallback, secrets_env, secrets_pc>>

\* invalidate_cache()
InvalidateCache ==
    /\ secrets_pc = "ready"
    /\ secret_ops < MaxSecretOps
    /\ secrets_loaded' = FALSE
    /\ secrets_cache' = EmptyCache
    /\ loaded_since' = FALSE
    /\ secret_ops' = secret_ops + 1
    /\ UNCHANGED <<use_env_fallback, secrets_env, sm_calls, secret_last,
                   secrets_pc>>

SecretsNext ==
    \/ GetCachedSecret
    \/ GetUncachedSecret
    \/ InvalidateCache

----------------------------------------------------------------------------
(* Specifications.                                                         *)

GrouperInit ==
    /\ GrouperCalled
    /\ SanitizeIdle /\ WaitIdle /\ EmbeddingIdle /\ HashIdle
    /\ ChunkingIdle /\ TranscribeIdle /\ QuestionIdle /\ AuthIdle
    /\ SecretsIdle

GrouperSpec ==
    GrouperInit
    /\ [][GrouperNext
          /\ UNCHANGED <<sanitize_vars, wait_vars, embedding_vars, hash_vars,
                       chunking_vars, transcribe_vars, question_vars, auth_vars,
                       secrets_vars>>]_vars

SanitizeInit ==
    /\ SanitizeCalled
    /\ GrouperIdle /\ WaitIdle /\ EmbeddingIdle /\ HashIdle
    /\ ChunkingIdle /\ TranscribeIdle /\ QuestionIdle /\ AuthIdle
    /\ SecretsIdle

SanitizeSpec ==
    SanitizeInit
    /\ [][SanitizeNext
          /\ UNCHANGED <<grouper_vars, wait_vars, embedding_vars, hash_vars,
                       chunking_vars, transcribe_vars, question_vars, auth_vars,
                       secrets_vars>>]_vars

WaitInit ==
    /\ WaitCalled
    /\ GrouperIdle /\ SanitizeIdle /\ EmbeddingIdle /\ HashIdle
    /\ ChunkingIdle /\ TranscribeIdle /\ QuestionIdle /\ AuthIdle
    /\ SecretsIdle

WaitStep ==
    /\ WaitNext
    /\ UNCHANGED <<grouper_vars, sanitize_vars, embedding_vars, hash_vars,
                 chunking_vars, transcribe_vars, question_vars, auth_vars,
                 secrets_vars>>

\* The function runs on: a step that can be taken is taken.
WaitSpec == WaitInit /\ [][WaitStep]_vars /\ WF_vars(WaitStep)

EmbeddingInit ==
    /\ EmbeddingCalled
    /\ GrouperIdle /\ SanitizeIdle /\ WaitIdle /\ HashIdle
    /\ ChunkingIdle /\ TranscribeIdle /\ QuestionIdle /\ AuthIdle
    /\ SecretsIdle

EmbeddingSpec ==
    EmbeddingInit
    /\ [][EmbeddingNext
          /\ UNCHANGED <<grouper_vars, sanitize_vars, wait_vars, hash_vars,
                       chunking_vars, transcribe_vars, question_vars, auth_vars,
                       secrets_vars>>]_vars

HashInit ==
    /\ HashCalled
    /\ GrouperIdle /\ SanitizeIdle /\ WaitIdle /\ EmbeddingIdle
    /\ ChunkingIdle /\ TranscribeIdle /\ QuestionIdle /\ AuthIdle
    /\ SecretsIdle

HashSpec ==
    HashInit
    /\ [][HashNext
          /\ UNCHANGED <<grouper_vars, sanitize_vars, wait_vars, embedding_vars,
                       chunking_vars, transcribe_vars, question_vars, auth_vars,
                       secrets_vars>>]_vars

ChunkingInit ==
    /\ ChunkingCalled
    /\ GrouperIdle /\ SanitizeIdle /\ WaitIdle /\ EmbeddingIdle
    /\ HashIdle /\ TranscribeIdle /\ QuestionIdle /\ AuthIdle
    /\ SecretsIdle

ChunkingSpec ==
    ChunkingInit
    /\ [][ChunkingNext
          /\ UNCHANGED <<grouper_vars, sanitize_vars, wait_vars, embedding_vars,
                       hash_vars, transcribe_vars, question_vars, auth_vars,
                       secrets_vars>>]_vars

TranscribeInit ==
    /\ TranscribeCalled
    /\ GrouperIdle /\ SanitizeIdle /\ WaitIdle /\ EmbeddingIdle
    /\ HashIdle /\ ChunkingIdle /\ QuestionIdle /\ AuthIdle
    /\ SecretsIdle

TranscribeSpec ==
    TranscribeInit
    /\ [][TranscribeNext
          /\ UNCHANGED <<grouper_vars, sanitize_vars, wait_vars, embedding_vars,
                       hash_vars, chunking_vars, question_vars, auth_vars,
                       secrets_vars>>]_vars

QuestionInit ==
    /\ QuestionCalled
    /\ GrouperIdle /\ SanitizeIdle /\ WaitIdle /\ EmbeddingIdle
    /\ HashIdle /\ ChunkingIdle /\ TranscribeIdle /\ AuthIdle
    /\ SecretsIdle

QuestionSpec ==
    QuestionInit
    /\ [][QuestionNext
          /\ UNCHANGED <<grouper_vars, sanitize_vars, wait_vars, embedding_vars,
                       hash_vars, chunking_vars, transcribe_vars, auth_vars,
                       secrets_vars>>]_vars

AuthInit ==
    /\ AuthCalled
    /\ GrouperIdle /\ SanitizeIdle /\ WaitIdle /\ EmbeddingIdle
    /\ HashIdle /\ ChunkingIdle /\ TranscribeIdle /\ QuestionIdle
    /\ SecretsIdle

AuthSpec ==
    AuthInit
    /\ [][AuthNext
          /\ UNCHANGED <<grouper_vars, sanitize_vars, wait_vars, embedding_vars,
                       hash_vars, chunking_vars, transcribe_vars, question_vars,
                       secrets_vars>>]_vars

SecretsInit ==
    /\ SecretsCalled
    /\ GrouperIdle /\ SanitizeIdle /\ WaitIdle /\ EmbeddingIdle
    /\ HashIdle /\ ChunkingIdle /\ TranscribeIdle /\ QuestionIdle
    /\ AuthIdle

SecretsSpec ==
    SecretsInit
    /\ [][SecretsNext
          /\ UNCHANGED <<grouper_vars, sanitize_vars, wait_vars, embedding_vars,
                       hash_vars, chunking_vars, transcribe_vars, question_vars,
                       auth_vars>>]_vars

----------------------------------------------------------------------------
(* SegmentGrouper: properties.                                             *)

\* The text ends with ".", "!" or "?".
EndsWithTerminal(text) ==
    /\ text # <<>>
    /\ \/ text[Len(text)] = "."
       \/ text[Len(text)] = "!"
       \/ text[Len(text)] = "?"

RECURSIVE Flatten(_)
Flatten(gs) == IF gs = <<>> THEN <<>> ELSE Head(gs) \o Flatten(Tail(gs))

TextsOf(seg) == [i \in 1..Len(seg) |-> WordText(seg[i])]

Returned == grouper_pc = "done"

\* A field is usable as a number when it is absent or float() accepts it.
Parses(word, field) == Float(Get(word, field, Num(0))).ok

AllStartsParse(ws) == \A i \in 1..Len(ws) : Parses(ws[i], "start_time")

AllNumbersParse(ws) ==
    \A i \in 1..Len(ws) : /\ Parses(ws[i], "start_time")
                          /\ Parses(ws[i], "end_time")
                          /\ Parses(ws[i], "confidence")

StartOf(word) == Float(Get(word, "start_time", Num(0))).val

RECURSIVE StartsOf(_)
StartsOf(ws) ==
    IF ws = <<>> THEN <<>> ELSE <<StartOf(Head(ws))>> \o StartsOf(Tail(ws))

\* The place, in a stable ascending sort, of the j-th of the keys: the
\* number of keys that are smaller, or equal and at no later position.
StableRank(keys, j) ==
    Cardinality({k \in 1..Len(keys) :
                    \/ keys[k] < keys[j]
                    \/ keys[k] = keys[j] /\ k <= j})

\* out is ws in the order in which the items are to be processed: stably
\* sorted by start_time when every start_time parses, as it came otherwise.
InProcessingOrder(out, ws) ==
    IF AllStartsParse(ws)
    THEN LET keys == StartsOf(ws)
         IN /\ Len(out) = Len(ws)
            /\ \A j \in 1..Len(ws) : out[StableRank(keys, j)] = ws[j]
    ELSE out = ws

\* C1: on items whose numeric fields parse the grouper does not fail, and
\* when it returns, the result is empty iff the input is, and the segments,
\* in output order, are non-empty contiguous runs that together are exactly
\* the item sequence in processing order (nothing dropped, duplicated or
\* reordered); each segment's transcript is made of the texts of its run.
C1_Partition ==
    /\ grouper_pc = "raised" => ~AllNumbersParse(input_segments)
    /\ Returned =>
         /\ (audio_segments = <<>>) <=> (input_segments = <<>>)
         /\ Len(groups) = Len(audio_segments)
         /\ \A k \in 1..Len(groups) :
               /\ groups[k] # <<>>
               /\ audio_segments[k].transcript = JoinSpace(TextsOf(groups[k]))
         /\ InProcessingOrder(Flatten(groups), input_segments)

C1_Witness ==
    /\ Returned
    /\ AllNumbersParse(input_segments)
    /\ Len(input_segments) > 10
    /\ input_segments # word_segments
    /\ Len(audio_segments) >= 3

\* C2: no emitted segment, and no working group, holds more than 10 items.
C2_AtMostTen ==
    /\ \A k \in 1..Len(groups) : Len(groups[k]) <= 10
    /\ Len(audio_segments) = Len(groups)
    /\ grouper_pc # "raised" => Len(current_segment) < 10

C2_Witness ==
    /\ Returned
    /\ Len(input_segments) > 10
    /\ \E k \in 1..Len(groups) : Len(groups[k]) = 10

\* C3: every emitted segment but the last ends on an item whose text ends
\* with ".", "!" or "?", or holds exactly 10 items.
C3_BoundaryReason ==
    \A k \in 1..(Len(groups) - 1) :
        \/ EndsWithTerminal(WordText(groups[k][Len(groups[k])]))
        \/ Len(groups[k]) = 10

C3_Witness ==
    /\ Returned
    /\ \E k \in 1..(Len(groups) - 1) :
          /\ Len(groups[k]) = 10
          /\ ~EndsWithTerminal(WordText(groups[k][10]))
    /\ \E k \in 1..(Len(groups) - 1) :
          /\ Len(groups[k]) < 10
          /\ EndsWithTerminal(WordText(groups[k][Len(groups[k])]))
    /\ ~EndsWithTerminal(WordText(word_segments[Len(word_segments)]))

OnlyLastEndsWithStop(ws) ==
    /\ Len(ws) >= 1
    /\ \A i \in 1..Len(ws) :
          IF i = Len(ws)
          THEN WordText(ws[i]) # <<>> /\ WordText(ws[i])[Len(WordText(ws[i]))] = "."
          ELSE ~EndsWithTerminal(WordText(ws[i]))

C5_NeverRaises == grouper_pc # "raised"

C6_SortedReached ==
    /\ Returned
    /\ ~sort_warning
    /\ word_segments # input_segments
    /\ \E i \in 1..(Len(word_segments) - 1) :
          /\ StartOf(word_segments[i]) = StartOf(word_segments[i + 1])
          /\ word_segments[i] # word_segments[i + 1]

KnownKinds == {"pronunciation", "punctuation"}

OtherKindCount(ws) == Cardinality({i \in 1..Len(ws) : ws[i].type \notin KnownKinds})

\* C7 (as claimed): items of another kind are in no segment.
C7_OtherKindsIgnored ==
    \A k \in 1..Len(groups) : \A i \in 1..Len(groups[k]) :
        groups[k][i].type \in KnownKinds

\* C7 (amended): the kind is not read; an item of another kind is grouped
\* like any other item: it is in a segment, its text is in the transcript,
\* it counts in the segment's size and confidence.
C7_KindNotRead ==
    Returned =>
        /\ OtherKindCount(Flatten(groups)) = OtherKindCount(input_segments)
        /\ Len(Flatten(groups)) = Len(input_segments)
        /\ \A k \in 1..Len(groups) :
              /\ audio_segments[k].transcript = JoinSpace(TextsOf(groups[k]))
              /\ audio_segments[k].confidence.count = Len(groups[k])

C7_Witness ==
    /\ Returned
    /\ \E k \in 1..Len(groups) : \E i \in 2..(Len(groups[k]) - 1) :
          groups[k][i].type \notin KnownKinds

\* An item's confidence: absent counts as 1.0.
ItemConfidence(word) ==
    IF word.confidence.t = "missing" THEN FracScale
    ELSE Float(word.confidence).val

RECURSIVE ConfidenceTotal(_)
ConfidenceTotal(seg) ==
    IF seg = <<>> THEN 0
    ELSE ItemConfidence(Head(seg)) + ConfidenceTotal(Tail(seg))

\* C8: each segment's start_time is its first item's parsed start_time, its
\* end_time its last item's parsed end_time, its transcript the items' texts
\* joined by single spaces in processing order, its confidence the sum of
\* the items' confidences divided by their number.
C8_SegmentFields ==
    \A k \in 1..Len(audio_segments) :
        LET seg == groups[k]
            out == audio_segments[k]
        IN /\ out.start_time = StartOf(seg[1])
           /\ out.end_time = Float(Get(seg[Len(seg)], "end_time", Num(0))).val
           /\ out.transcript = JoinSpace(TextsOf(seg))
           /\ out.text = out.transcript
           /\ out.confidence.sum = ConfidenceTotal(seg)
           /\ out.confidence.count = Len(seg)

C8_Witness ==
    /\ Returned
    /\ \E k \in 1..Len(audio_segments) :
          /\ Len(groups[k]) >= 3
          /\ \E i \in 1..Len(groups[k]) : groups[k][i].confidence.t = "missing"
          /\ \E i \in 1..Len(groups[k]) : ItemConfidence(groups[k][i]) < FracScale
          /\ audio_segments[k].start_time # audio_segments[k].end_time
          /\ StartOf(groups[k][1]) # StartOf(groups[k][Len(groups[k])])

ConfidenceInRange(word) ==
    \/ word.confidence.t = "missing"
    \/ /\ Float(word.confidence).ok
       /\ Float(word.confidence).val >= 0
       /\ Float(word.confidence).val <= FracScale

\* C9: when every item's confidence is absent or in [0, 1], every segment's
\* confidence sum / count is in [0, 1].
C9_ConfidenceRange ==
    \/ \A k \in 1..Len(audio_segments) :
            /\ audio_segments[k].confidence.count > 0
            /\ audio_segments[k].confidence.sum >= 0
            /\ audio_segments[k].confidence.sum
                  <= audio_segments[k].confidence.count * FracScale
    \/ \E i \in 1..Len(input_segments) : ~ConfidenceInRange(input_segments[i])

C9_Witness ==
    /\ Returned
    /\ \A i \in 1..Len(input_segments) : ConfidenceInRange(input_segments[i])
    /\ \E i \in 1..Len(input_segments) : input_segments[i].confidence.t = "missing"
    /\ \E k \in 1..Len(audio_segments) :
          /\ audio_segments[k].confidence.sum > 0
          /\ audio_segments[k].confidence.sum
                < audio_segments[k].confidence.count * FracScale
    /\ \E k \in 1..Len(audio_segments) :
          audio_segments[k].confidence.sum
             = audio_segments[k].confidence.count * FracScale

----------------------------------------------------------------------------
(* MetadataSanitizer: properties.                                          *)

AllowList == {"speaker", "title", "track", "day"}

SanitizeReturned == sanitize_pc = "done"

KeysOf(items) == {items[i].key : i \in 1..Len(items)}

\* C10: the keys of the result are exactly the input keys that are one of
\* speaker, title, track, day and whose sanitized value is not empty; no
\* other key is ever in the result and no value in it is the empty string.
C10_KeySet ==
    /\ \A i \in 1..Len(sanitized) :
          /\ sanitized[i].key \in AllowList
          /\ sanitized[i].value # <<>>
    /\ SanitizeReturned =>
          KeysOf(sanitized) =
             {metadata.items[i].key : i \in
                 {j \in 1..Len(metadata.items) :
                     /\ metadata.items[j].key \in AllowList
                     /\ Strip(ApplyPatterns(PyStr(metadata.items[j].value))) # <<>>}}

C10_Witness ==
    /\ SanitizeReturned
    /\ Len(metadata.items) = 3
    /\ Len(sanitized) = 1
    /\ \E i \in 1..3 : metadata.items[i].key \notin AllowList
    /\ \E i \in 1..3 :
          /\ metadata.items[i].key \in AllowList
          /\ metadata.items[i].key \notin KeysOf(sanitized)
          /\ PyStr(metadata.items[i].value) # <<>>


\* The input value of the key k of the metadata.
InputValue(k) ==
    metadata.items[CHOOSE i \in 1..Len(metadata.items) :
                      metadata.items[i].key = k].value

\* The value after the patterns and the strip, before the truncation.
Cleaned(v) == Strip(ApplyPatterns(PyStr(v)))

Ellipsis == <<".", ".", ".">>

\* C11: every value of the result has at most 256 characters; a cleaned,
\* trimmed string of more than 256 characters is returned as its first 253
\* characters followed by "...", 256 characters in all, and one of 256
\* characters or fewer is returned as it is.
C11_LengthCap ==
    \A i \in 1..Len(sanitized) :
       LET out == sanitized[i].value
           c == Cleaned(InputValue(sanitized[i].key))
       IN /\ Len(out) <= 256
          /\ Len(c) > 256 => /\ out = SubSeq(c, 1, 253) \o Ellipsis
                              /\ Len(out) = 256
          /\ Len(c) <= 256 => out = c

\* A value was cut, and a value of exactly 256 characters was not.
C11_Witness ==
    /\ SanitizeReturned
    /\ \E i \in 1..Len(sanitized) :
          LET out == sanitized[i].value
              c == Cleaned(InputValue(sanitized[i].key))
          IN \/ /\ Len(c) = 257
                /\ Len(out) = 256
                /\ SubSeq(out, 254, 256) = Ellipsis
             \/ /\ Len(c) > 257
                /\ SubSeq(out, 254, 256) = Ellipsis

\* A value of exactly 256 characters is returned whole.
C11_AtLimitReached ==
    /\ SanitizeReturned
    /\ \E i \in 1..Len(sanitized) :
          /\ Len(sanitized[i].value) = 256
          /\ sanitized[i].value = PyStr(InputValue(sanitized[i].key))


\* Position i of s is inside a <tag ...> ... </tag> block: behind the ">"
\* of an opening tag and before the next closing tag.
BlockContentAt(s, i, tag) ==
    \E a \in 1..(i - 1) :
       LET open == <<"<">> \o tag
           close == <<"<", "/">> \o tag \o <<">">>
           g == Find(s, a + Len(open), <<">">>, FALSE)
           e == IF g = 0 THEN 0 ELSE Find(s, g + 1, close, TRUE)
       IN /\ HasAt(s, a, open, TRUE)
          /\ WordBoundary(s, a + Len(open))
          /\ g > 0 /\ g < i
          /\ e > i

\* Position i of s is inside a comment: behind "<!--", before the next "-->".
CommentContentAt(s, i) ==
    \E a \in 1..(i - 4) :
       /\ HasAt(s, a, <<"<", "!", "-", "-">>, FALSE)
       /\ Find(s, a + 4, <<"-", "-", ">">>, FALSE) > i

HiddenAt(s, i) ==
    \/ BlockContentAt(s, i, <<"s", "c", "r", "i", "p", "t">>)
    \/ BlockContentAt(s, i, <<"s", "t", "y", "l", "e">>)
    \/ CommentContentAt(s, i)

\* The characters that s has inside script blocks, style blocks and comments
\* and nowhere else; the characters the sanitizer writes itself are left out.
HiddenChars(s) ==
    {s[i] : i \in {j \in 1..Len(s) : HiddenAt(s, j)}}
    \ ({s[i] : i \in {j \in 1..Len(s) : ~HiddenAt(s, j)}}
        \cup {" ", ":", "/", "&", "."})

CharsOf(s) == {s[i] : i \in 1..Len(s)}

\* The control characters of the model: 0x00-0x1F and 0x7F.
ControlChars == {BEL, DEL, "\t", "\n", "\r", "\f"}

\* C12: no value of the result has "<" or ">", a control character, a
\* leading or trailing whitespace character, or a character that the input
\* had only inside a script block, a style block or a comment.
C12_NoMarkup ==
    \A i \in 1..Len(sanitized) :
       LET out == sanitized[i].value
           in == PyStr(InputValue(sanitized[i].key))
       IN /\ CharsOf(out) \cap {"<", ">"} = {}
          /\ CharsOf(out) \cap ControlChars = {}
          /\ out[1] \notin SpaceChars
          /\ out[Len(out)] \notin SpaceChars
          /\ CharsOf(out) \cap HiddenChars(in) = {}

\* A value with a tag, a block with content and a control character in it,
\* or with whitespace at an end, is in the result.
C12_Witness ==
    /\ SanitizeReturned
    /\ \E i \in 1..Len(sanitized) :
          LET in == PyStr(InputValue(sanitized[i].key))
          IN /\ HiddenChars(in) # {}
             /\ "<" \in CharsOf(in)
             /\ CharsOf(in) \cap ControlChars # {}
             /\ in[1] \in SpaceChars
             /\ in[Len(in)] \in SpaceChars


\* What Python prints for the values of the model that are not str.
StringOf(v) ==
    CASE v.t = "str" -> v.s
      [] v = MetaInt(123) -> <<"1", "2", "3">>
      [] v = MetaInt(0) -> <<"0">>
      [] v = MetaBool(TRUE) -> <<"T", "r", "u", "e">>
      [] v = MetaBool(FALSE) -> <<"F", "a", "l", "s", "e">>
      [] v = MetaNone -> <<"N", "o", "n", "e">>
      [] v = MetaList(<<>>) -> <<"[", "]">>
      [] v = MetaList(<<<<"T", "e", "c", "h">>, <<"A", "I">>>>) ->
            <<"[", "'", "T", "e", "c", "h", "'", ",", " ",
              "'", "A", "I", "'", "]">>
      [] v = MetaDict(<<<<"k">>, <<"v">>>>) ->
            <<"{", "'", "k", "'", ":", " ", "'", "v", "'", "}">>

\* The sanitized form of a string.
SanitizedString(s) == Truncate(Strip(ApplyPatterns(s)))

\* C13: the call has no step that raises: it is in its loop or has returned;
\* None and the empty map give the empty map; whatever the type of a value
\* under one of the four keys, the result has the sanitized form of its
\* string representation under that key, or no entry when that form is
\* empty.
C13_Total ==
    /\ sanitize_pc \in {"call", "loop", "done"}
    /\ sanitize_pc = "loop" => key_idx <= Len(metadata.items) + 1
    /\ SanitizeReturned =>
          /\ (metadata.none \/ metadata.items = <<>>) => sanitized = <<>>
          /\ \A j \in 1..Len(metadata.items) :
                LET k == metadata.items[j].key
                    e == SanitizedString(StringOf(metadata.items[j].value))
                IN k \in AllowList =>
                      IF e = <<>> THEN k \notin KeysOf(sanitized)
                      ELSE \E i \in 1..Len(sanitized) : sanitized[i] = Item(k, e)

\* A value that is not a str came back as a string.
C13_Witness ==
    /\ SanitizeReturned
    /\ \E j \in 1..Len(metadata.items) :
          /\ metadata.items[j].value.t \in {"int", "bool", "none", "list", "dict"}
          /\ metadata.items[j].key \in KeysOf(sanitized)

\* None was passed and the empty map returned.
C13_NoneReached == SanitizeReturned /\ metadata.none /\ sanitized = <<>>


\* The characters of a clean value: word characters, the single space and
\* the allowed punctuation.
CleanChars ==
    WordChars
    \cup {" ", "-", ".", ",", "!", "?", "(", ")", "'", "\"", "&", "/", ":", "@"}

\* s is already clean: it has only clean characters, no space at an end or
\* next to another space or to a slash, no text of a marker, a space (or an
\* end of the value) on each side of every ampersand, no space between a
\* digit and a colon, and no space inside a final "A M" or "P M".
Clean(s) ==
    /\ s # <<>>
    /\ Len(s) <= 256
    /\ CharsOf(s) \subseteq CleanChars
    /\ s[1] # " " /\ s[Len(s)] # " "
    /\ Find(s, 1, <<" ", " ">>, FALSE) = 0
    /\ Find(s, 1, <<" ", "/">>, FALSE) = 0
    /\ Find(s, 1, <<"/", " ">>, FALSE) = 0
    /\ Find(s, 1, TIMECOLON, FALSE) = 0
    /\ Find(s, 1, SLASH, FALSE) = 0
    /\ Find(s, 1, AMPERSAND, FALSE) = 0
    /\ \A i \in 1..Len(s) :
          /\ s[i] = "&" => /\ i = 1 \/ s[i - 1] = " "
                           /\ i = Len(s) \/ s[i + 1] = " "
          /\ (s[i] = " " /\ s[i - 1] \in DigitSet) => s[i + 1] # ":"
          /\ (s[i] = " " /\ s[i - 1] \in {"A", "P"} /\ s[i + 1] = "M") =>
                (i + 2 <= Len(s) /\ s[i + 2] \in WordChars)

Monday9AM ==
    <<"M", "o", "n", "d", "a", "y", " ", "@", " ", "9", ":", "0", "0", " ",
      "A", "M">>
TrackAIML ==
    <<"A", "I", "/", "M", "L", " ", "&", " ", "C", "l", "o", "u", "d", "/",
      "D", "e", "v", "O", "p", "s">>

\* C14: a value that is already clean is returned as it is: a time colon,
\* a slash between letters, an ampersand between spaces, "@" and "AM" after
\* a space stay as written.
C14_CleanUnchanged ==
    /\ \A i \in 1..Len(sanitized) :
          LET v == InputValue(sanitized[i].key)
          IN (v.t = "str" /\ Clean(v.s)) => sanitized[i].value = v.s
    /\ SanitizeReturned =>
          \A j \in 1..Len(metadata.items) :
             LET k == metadata.items[j].key
                 v == metadata.items[j].value
             IN (k \in AllowList /\ v.t = "str" /\ Clean(v.s)) =>
                   k \in KeysOf(sanitized)

\* "Monday @ 9:00 AM" was returned as written.
C14_Witness ==
    /\ SanitizeReturned
    /\ Clean(Monday9AM)
    /\ \E i \in 1..Len(sanitized) :
          /\ InputValue(sanitized[i].key) = MetaStr(Monday9AM)
          /\ sanitized[i].value = Monday9AM

\* "AI/ML & Cloud/DevOps" was returned as written.
C14_TrackReached ==
    /\ SanitizeReturned
    /\ Clean(TrackAIML)
    /\ \E i \in 1..Len(sanitized) :
          /\ InputValue(sanitized[i].key) = MetaStr(TrackAIML)
          /\ sanitized[i].value = TrackAIML


\* s with every occurrence of the text lit replaced by the character c.
RECURSIVE ReplaceAll(_, _, _)
ReplaceAll(s, lit, c) ==
    LET j == Find(s, 1, lit, FALSE)
    IN IF j = 0 THEN s
       ELSE SubSeq(s, 1, j - 1) \o <<c>>
            \o ReplaceAll(SubSeq(s, j + Len(lit), Len(s)), lit, c)

MarkerTexts == {TIMECOLON, SLASH, AMPERSAND}

HasMarkerText(s) == \E lit \in MarkerTexts : Find(s, 1, lit, FALSE) > 0

\* s with the marker texts written as the characters they stand for.
MarkersAsChars(s) ==
    ReplaceAll(ReplaceAll(ReplaceAll(s, TIMECOLON, ":"), SLASH, "/"),
               AMPERSAND, "&")

C15_TimeColonReached ==
    /\ SanitizeReturned
    /\ \E i \in 1..Len(sanitized) :
          /\ InputValue(sanitized[i].key)
                = MetaStr(<<"9">> \o TIMECOLON \o <<"0", "0">>)
          /\ sanitized[i].value = <<"9", ":", "0", "0">>

\* "a AMPERSAND b" was returned as "a & b".
C15_AmpersandReached ==
    /\ SanitizeReturned
    /\ \E i \in 1..Len(sanitized) :
          /\ InputValue(sanitized[i].key)
                = MetaStr(<<"a", " ">> \o AMPERSAND \o <<" ", "b">>)
          /\ sanitized[i].value = <<"a", " ", "&", " ", "b">>


\* Exactly one space before position p of s, or p is the first position.
OneSpaceBefore(s, p) ==
    \/ p = 1
    \/ s[p - 1] = " " /\ (p = 2 \/ s[p - 2] # " ")

\* Exactly one space behind position p of s, or p is the last position.
OneSpaceAfter(s, p) ==
    \/ p = Len(s)
    \/ s[p + 1] = " " /\ (p + 1 = Len(s) \/ s[p + 2] # " ")

WasTruncated(i) == Len(Cleaned(InputValue(sanitized[i].key))) > 256

C16_SlashReached ==
    /\ SanitizeReturned
    /\ \E i \in 1..Len(sanitized) :
          Find(sanitized[i].value, 1, <<"&", "/">>, FALSE) > 1

\* An ampersand stands right before the "..." of a cut value.
C16_CutReached ==
    /\ SanitizeReturned
    /\ \E i \in 1..Len(sanitized) :
          /\ WasTruncated(i)
          /\ SubSeq(sanitized[i].value, 253, 256) = <<"&", ".", ".", ".">>


\* The patterns with the strip of the other characters moved in front of
\* the three protecting patterns.
StripFirstPatterns(s) ==
    LET s1 == RemoveTags(RemoveComments(RemoveStyle(RemoveScript(s))))
        s2 == CollapseControl(s1)
        s3 == StripSpecial(s2)
        s4 == ProtectAmpersand(ProtectSlash(ProtectTimeColon(s3)))
        s5 == RestoreAmpersand(RestoreSlash(RestoreTimeColon(s4)))
        s6 == SpaceAmpersand(FixMeridiem(FixTimeSpace(s5)))
    IN CollapseSpace(TightenSlash(s6))

StripFirstValue(v) == Truncate(Strip(StripFirstPatterns(PyStr(v))))

\* s has a colon the time pattern protects, a slash between two letters or
\* an ampersand before whitespace or the end.
HasProtected(s) ==
    \E i \in 1..Len(s) :
       TimeColonMatch(s, i) + SlashMatch(s, i) + AmpersandMatch(s, i) > 0

\* C17 as claimed: for some value with a time colon, a slash between
\* letters or a standalone ampersand, stripping first gives another result
\* than sanitize_metadata (looked at when a call has returned).
C17_OrderMatters ==
    SanitizeReturned =>
       \E v \in Values :
          HasProtected(PyStr(v)) /\ StripFirstValue(v) # SanitizeValue(v)

\* C17 as amended: stripping first gives the same result as
\* sanitize_metadata for every value, the ones with a time colon, a slash
\* between letters or a standalone ampersand included; the strip keeps
\* ":", "/" and "&" by itself.
C17_OrderIrrelevant ==
    \A j \in 1..Len(metadata.items) :
       LET k == metadata.items[j].key
           e == StripFirstValue(metadata.items[j].value)
       IN (j < key_idx /\ k \in AllowList) =>
             IF e = <<>> THEN k \notin KeysOf(sanitized)
             ELSE \E i \in 1..Len(sanitized) : sanitized[i] = Item(k, e)

\* A value with all three protected characters was returned with them.
C17_Witness ==
    /\ SanitizeReturned
    /\ \E i \in 1..Len(sanitized) :
          LET in == PyStr(InputValue(sanitized[i].key))
          IN /\ \E p \in 1..Len(in) : TimeColonMatch(in, p) = 1
             /\ \E p \in 1..Len(in) : SlashMatch(in, p) = 1
             /\ \E p \in 1..Len(in) : AmpersandMatch(in, p) = 1
             /\ {":", "/", "&"} \subseteq CharsOf(sanitized[i].value)


MyTalk ==
    <<"M", "y", " ", "T", "a", "l", "k", "!">>
TrackWithoutAt ==
    <<"A", "I", "/", "M", "L", " ", "&", " ", "D", "e", "e", "p", "-", "L",
      "e", "a", "r", "n", "i", "n", "g", " ", "T", "r", "a", "c", "k", " ",
      "2", "0", "2", "4">>

\* C18: the docstring's example returns title "My Talk!", the script block
\* gone with its content, and track "AI/ML & Deep-Learning Track 2024", the
\* "@" before 2024 removed.
C18_DocExample ==
    (SanitizeReturned /\ metadata = DocExample) =>
       sanitized = <<Item("title", MyTalk), Item("track", TrackWithoutAt)>>

----------------------------------------------------------------------------
(* _wait_for_transcription: properties.                                    *)

WaitEnded == wait_pc \in {"returned", "raised"}

TerminalStatuses == {"COMPLETED", "FAILED"}

LastPoll == IF polls = <<>> THEN "none" ELSE polls[Len(polls)]

C19_Safe ==
    \* at most max_attempts polls, and none behind a COMPLETED or FAILED
    /\ Len(polls) <= max_attempts
    /\ \A k \in 1..(Len(polls) - 1) : polls[k] \notin TerminalStatuses
    \* the first COMPLETED ends the call with what the strategy gives
    /\ LastPoll = "COMPLETED" =>
          \/ wait_pc = "returned" /\ wait_outcome = StrategyResult
          \/ wait_pc = "raised" /\ wait_outcome = StrategyError
    /\ wait_pc = "returned" => LastPoll = "COMPLETED"
    \* the first FAILED ends the call with "Transcription job failed: ..."
    /\ LastPoll = "FAILED" =>
          /\ wait_pc = "raised"
          /\ wait_outcome.kind = "Transcription job failed: "
          /\ wait_outcome.detail \in {"Unsupported media", "Unknown error"}
    \* max_attempts polls with another status end the call with the timeout
    /\ (WaitEnded /\ \A k \in 1..Len(polls) : polls[k] \in PendingStatuses) =>
          /\ Len(polls) = max_attempts
          /\ wait_pc = "raised"
          /\ wait_outcome.kind = "Transcription job timed out after "
          /\ wait_outcome.attempts = max_attempts
    /\ wait_outcome.kind = "Transcription job timed out after " =>
          /\ Len(polls) = max_attempts
          /\ \A k \in 1..Len(polls) : polls[k] \in PendingStatuses

\* C19: the call ends, after at most max_attempts polls: with the
\* strategy's result at the first COMPLETED, with "Transcription job failed:
\* <reason>" at the first FAILED, with "Transcription job timed out after
\* <max_attempts> attempts" when max_attempts polls gave another status; no
\* poll follows a COMPLETED or a FAILED.
C19_TerminatesWithinMaxAttempts == []C19_Safe /\ <>WaitEnded

\* The call timed out after several polls.
C19_Witness ==
    /\ wait_pc = "raised"
    /\ max_attempts >= 3
    /\ Len(polls) = max_attempts
    /\ sleeps = max_attempts
    /\ wait_outcome = TimedOut(max_attempts)

\* The job was COMPLETED at a later poll and the result returned.
C19_CompletedReached ==
    /\ wait_pc = "returned"
    /\ Len(polls) >= 2
    /\ Len(polls) < max_attempts
    /\ LastPoll = "COMPLETED"

\* The job FAILED without a reason at a later poll.
C19_FailedReached ==
    /\ wait_pc = "raised"
    /\ Len(polls) >= 2
    /\ LastPoll = "FAILED"
    /\ wait_outcome = JobFailed("absent")

----------------------------------------------------------------------------
(* embedding_handler.lambda_handler: properties.                           *)

EmbeddingReturned == embedding_pc = "done"

\* The calls made for record k.
CallsFor(k, op) ==
    {c \in 1..Len(service_calls) :
        service_calls[c].record = k /\ service_calls[c].op = op}

\* Record k failed: its body did not give a message with metadata, or a
\* call made for it raised.
RecordFailed(k) ==
    \/ event_records[k].body # "message"
    \/ \E c \in 1..Len(service_calls) :
          service_calls[c].record = k /\ ~service_calls[c].ok

\* One entry per record handled so far, in the order of the records, with
\* status error exactly for the records that failed; no upsert for a record
\* whose embedding was not created.
PerRecordEntries ==
    /\ Len(processed_records) = record_idx - 1
    /\ \A k \in 1..Len(processed_records) :
          /\ processed_records[k].status = "error" <=> RecordFailed(k)
          /\ processed_records[k].status \in {"error", "success"}
          /\ event_records[k].body = "message" =>
                processed_records[k].chunk_id = MessageChunkId(event_records[k])
    /\ \A k \in 1..Len(event_records) :
          (\E c \in CallsFor(k, "create_embedding") : ~service_calls[c].ok) =>
             CallsFor(k, "upsert_embeddings") = {}

\* C20 as claimed: every call returns statusCode 200 with one entry per
\* record, in the order of the records, error entries for the records that
\* failed, and no upsert for a record whose embedding was not created.
C20_PerRecordIsolation ==
    /\ PerRecordEntries
    /\ EmbeddingReturned =>
          /\ response.statusCode = 200
          /\ response.processed_records = processed_records
          /\ Len(processed_records) = Len(event_records)

\* C20 as amended: a call in which both services are there (kept from an
\* earlier call or created now) returns statusCode 200 with one entry per
\* record, as above; a call in which a service cannot be created returns
\* statusCode 500 and has handled no record.
C20_IsolationWhenServicesReady ==
    /\ PerRecordEntries
    /\ (EmbeddingReturned /\ openai_service = "ready"
           /\ pinecone_service = "ready") =>
          /\ response.statusCode = 200
          /\ response.processed_records = processed_records
          /\ Len(processed_records) = Len(event_records)
    /\ (EmbeddingReturned /\ "None" \in {openai_service, pinecone_service}) =>
          /\ response = FatalError
          /\ processed_records = <<>>
          /\ service_calls = <<>>

\* A record failed and a later record was stored.
C20_Witness ==
    /\ EmbeddingReturned
    /\ response.statusCode = 200
    /\ Len(event_records) = 3
    /\ processed_records[1].status = "error"
    /\ event_records[1].body = "invalid json"
    /\ processed_records[2].status = "error"
    /\ CallsFor(2, "upsert_embeddings") # {}
    /\ processed_records[3].status = "success"

\* A service could not be created: statusCode 500.
C20_FatalReached ==
    /\ EmbeddingReturned
    /\ response.statusCode = 500
    /\ event_records # <<>>

----------------------------------------------------------------------------
(* SegmentGrouper: times of the emitted segments.                          *)

EndOf(word) == Float(Get(word, "end_time", Num(0))).val

\* Every item's start_time and end_time parse (an absent one counts as the
\* 0 the code reads for it) and the start is not after the end.
StartsBeforeEnds(ws) ==
    \A i \in 1..Len(ws) :
       /\ Parses(ws[i], "start_time")
       /\ Parses(ws[i], "end_time")
       /\ StartOf(ws[i]) <= EndOf(ws[i])

\* C26: when every input item has a parseable start_time <= end_time, every
\* emitted segment has start_time <= end_time and the start_times of the
\* segments do not decrease in output order.
C26_SegmentTimesOrdered ==
    StartsBeforeEnds(input_segments) =>
       /\ \A k \in 1..Len(audio_segments) :
             audio_segments[k].start_time <= audio_segments[k].end_time
       /\ \A k \in 1..(Len(audio_segments) - 1) :
             audio_segments[k].start_time <= audio_segments[k + 1].start_time

\* A list that came out of order was grouped into several segments, one of
\* them spanning more than one item.
C26_Witness ==
    /\ Returned
    /\ StartsBeforeEnds(input_segments)
    /\ \E i, j \in 1..Len(input_segments) :
          i < j /\ StartOf(input_segments[i]) > StartOf(input_segments[j])
    /\ Len(audio_segments) >= 2
    /\ \E k \in 1..Len(groups) : Len(groups[k]) >= 2
    /\ audio_segments[1].start_time < audio_segments[Len(audio_segments)].start_time


----------------------------------------------------------------------------
(* MetadataSanitizer: a second call on the returned map.                   *)

\* The loop of sanitize_metadata over the items of a dict.
RECURSIVE SanitizeItems(_)
SanitizeItems(items) ==
    IF items = <<>> THEN <<>>
    ELSE LET key == Head(items).key
             sanitized_value == SanitizeValue(Head(items).value)
         IN (IF key \in allowed_keys /\ sanitized_value # <<>>
             THEN <<Item(key, sanitized_value)>> ELSE <<>>)
            \o SanitizeItems(Tail(items))

\* sanitize_metadata(sanitized): the returned values are str.
SanitizedAgain ==
    SanitizeItems([i \in 1..Len(sanitized) |->
                      Item(sanitized[i].key, MetaStr(sanitized[i].value))])

\* The value was cut and the 253 characters kept end with "A M" or "P M":
\* the "M" had a letter behind it and has the "..." behind it now.
CutBehindMeridiem(v) ==
    /\ Len(v) = MaxValueLen
    /\ SubSeq(v, KeptLen + 1, MaxValueLen) = Ellipsis
    /\ v[KeptLen] = "M" /\ v[KeptLen - 1] = " " /\ v[KeptLen - 2] \in {"A", "P"}

\* C27: sanitize_metadata is idempotent, sanitize_metadata of the returned
\* map is the returned map, also where a value was cut to 256 characters.
C27_Idempotent ==
    SanitizeReturned => SanitizedAgain = sanitized

\* C27 as amended: the second call returns the same keys, and the same value
\* for each, except for a value that was cut behind "A M" or "P M", which
\* comes back without the space before the "M".
C27_IdempotentButCutMeridiem ==
    SanitizeReturned =>
       /\ Len(SanitizedAgain) = Len(sanitized)
       /\ \A i \in 1..Len(sanitized) :
             LET v == sanitized[i].value
             IN /\ SanitizedAgain[i].key = sanitized[i].key
                /\ SanitizedAgain[i].value =
                      IF CutBehindMeridiem(v)
                      THEN SubSeq(v, 1, KeptLen - 2) \o SubSeq(v, KeptLen, MaxValueLen)
                      ELSE v

\* A map with a changed value and a map with a cut value were returned and
\* sanitized again.
C27_Witness ==
    /\ SanitizeReturned
    /\ \E i \in 1..Len(sanitized) :
          /\ sanitized[i].value # PyStr(InputValue(sanitized[i].key))
          /\ \/ Len(sanitized) >= 2
             \/ WasTruncated(i) /\ ~CutBehindMeridiem(sanitized[i].value)
    /\ SanitizedAgain = sanitized

\* A value cut behind "A M" was returned.
C27_CutMeridiemReached ==
    /\ SanitizeReturned
    /\ \E i \in 1..Len(sanitized) : CutBehindMeridiem(sanitized[i].value)


----------------------------------------------------------------------------
(* MetadataSanitizer: two calls that agree on a key.                       *)

\* d.get(k, default) of a dict kept as the list of its items.
Lookup(items, k, default) ==
    IF k \in KeysOf(items)
    THEN items[CHOOSE i \in 1..Len(items) : items[i].key = k].value
    ELSE default

\* What stands for the value of a key that the map does not have.
NoValue == [t |-> "absent", s |-> <<>>, n |-> 0, items |-> <<>>]
NoEntry == <<"absent">>

\* The maps of the other call: one or two keys with short values.
PeerInputs ==
    UNION { {[i \in 1..n |-> Item(keys[i], vals[i])] :
                keys \in KeyLists(n), vals \in [1..n -> MixValues]} :
            n \in 1..2 }

\* What sanitize_metadata returns for each of them.
PeerResults == [peer \in PeerInputs |-> SanitizeItems(peer)]

\* C28: the sanitized value of an allow-listed key depends on that key's
\* input value only: a call with any other map that has the same value for
\* the key k returns the same for k, the same string or no entry, whatever
\* the other keys and values of the two maps are.
C28_DependsOnOwnValue ==
    SanitizeReturned =>
       \A k \in KeysOf(metadata.items) \cap AllowList :
          \A peer \in PeerInputs :
             Lookup(peer, k, NoValue) = Lookup(metadata.items, k, NoValue) =>
                Lookup(PeerResults[peer], k, NoEntry) = Lookup(sanitized, k, NoEntry)

\* Two maps with different other entries agree on a key whose value is
\* changed, and on one whose value is emptied.
C28_Witness ==
    /\ SanitizeReturned
    /\ Len(metadata.items) >= 2
    /\ \E k \in AllowList :
          /\ Lookup(metadata.items, k, NoValue) = MetaStr(<<" ", "a", "#">>)
          /\ Lookup(sanitized, k, NoEntry) = <<"a">>
          /\ \E peer \in PeerInputs :
                /\ Lookup(peer, k, NoValue) = Lookup(metadata.items, k, NoValue)
                /\ KeysOf(peer) # KeysOf(metadata.items)
                /\ Lookup(PeerResults[peer], k, NoEntry) = <<"a">>
    /\ \E k \in AllowList :
          /\ Lookup(metadata.items, k, NoValue) = MetaStr(<<"<", "b", ">">>)
          /\ Lookup(sanitized, k, NoEntry) = NoEntry

----------------------------------------------------------------------------
(* generate_chunk_hash: properties.                                        *)

LowerHex == {"0", "1", "2", "3", "4", "5", "6", "7", "8", "9",
             "a", "b", "c", "d", "e", "f"}

\* The arguments the function accepts: a non-empty name and an int >= 0.
ValidHashArguments ==
    /\ hash_original_file.t = "str" /\ hash_original_file.s # <<>>
    /\ hash_segment_id.t = "int" /\ hash_segment_id.n >= 0

\* C22: a call with an empty or None original_file, or a None or negative
\* segment_id, raises ValueError; a call with a non-empty original_file and
\* an int segment_id >= 0, 0 included, returns a string of exactly 10
\* lower-case hexadecimal characters, the same string on every call.
C22_HashValidatedAndStable ==
    \A i \in 1..Len(hash_results) :
        IF ValidHashArguments
        THEN /\ hash_results[i].ok
             /\ Len(hash_results[i].val) = 10
             /\ \A j \in 1..10 : hash_results[i].val[j] \in LowerHex
             /\ hash_results[i].val = hash_results[1].val
        ELSE hash_results[i] = Raise("ValueError")

\* Segment 0 of the media file was hashed on every call of the run.
C22_Witness ==
    /\ hash_pc = "done"
    /\ hash_original_file = Str(MediaFile)
    /\ hash_segment_id = PyInt(0)
    /\ Len(hash_results) = MaxHashCalls
    /\ hash_results[MaxHashCalls].ok
    /\ hash_results[1].val = <<"e", "a", "d", "8", "2", "4", "7", "2", "0", "e">>

----------------------------------------------------------------------------
(* chunking_handler.send_to_sqs: properties.                               *)

SendEnded == chunking_pc \in {"sent", "done"} /\ send_outcome # NothingYet

\* send_to_sqs had a queue URL, so its loop was entered.
QueueResolved == ~Falsy(send_args.queue_url) \/ sqs_queue_env

\* No message can be made of the segment: it has no id, start_time or
\* end_time, or generate_chunk_hash refuses the file name or the id.
Unbuildable(segment) ==
    \/ segment.id.t = "missing"
    \/ segment.id.t = "none"
    \/ segment.id.n < 0
    \/ Falsy(send_args.original_file)
    \/ segment.start_time.t = "missing"
    \/ segment.end_time.t = "missing"

FailsAt(i) == Unbuildable(send_args.audio_segments[i]) \/ i = sqs_fails_at

\* The position of the first segment that fails, 0 when none does.
FirstFailure ==
    IF \E i \in 1..Len(send_args.audio_segments) : FailsAt(i)
    THEN CHOOSE i \in 1..Len(send_args.audio_segments) :
            /\ FailsAt(i)
            /\ \A j \in 1..(i - 1) : ~FailsAt(j)
    ELSE 0

\* The i-th message the queue received is that of the i-th segment.
MessageOfSegment(i) ==
    LET segment == send_args.audio_segments[i]
        message == sqs_messages[i]
    IN  /\ message.chunk_id =
             generate_chunk_hash(send_args.original_file, segment.id).val
        /\ message.segment_id = segment.id
        /\ message.original_file = send_args.original_file
        /\ message.metadata = send_args.metadata
        /\ message.text = TextContent(segment)

SentInOrderUpTo(n) ==
    /\ Len(sqs_messages) = n
    /\ \A i \in 1..n : MessageOfSegment(i)

SendContract ==
    (SendEnded /\ QueueResolved) =>
        IF FirstFailure = 0
        THEN /\ send_outcome = Gave(Len(send_args.audio_segments))
             /\ SentInOrderUpTo(Len(send_args.audio_segments))
        ELSE /\ send_outcome.kind = "raised"
             /\ SentInOrderUpTo(FirstFailure - 1)

\* A step only adds messages behind those the queue has, and adds none once
\* send_to_sqs has returned or raised.
MessagesKept ==
    /\ Len(sqs_messages') >= Len(sqs_messages)
    /\ SubSeq(sqs_messages', 1, Len(sqs_messages)) = sqs_messages
    /\ SendEnded => sqs_messages' = sqs_messages

\* C21: send_to_sqs sends one message per segment in input order, each with
\* chunk_id = generate_chunk_hash(original_file, segment id) and the given
\* metadata, and returns the number of segments when every send succeeds;
\* when the k-th segment fails (building its message or sending it) the
\* exception propagates, no later segment is sent, and the k-1 messages
\* sent before stay sent.
C21_OneMessagePerSegmentUntilFailure ==
    []SendContract /\ [][MessagesKept]_vars

\* A call with MaxSegments segments whose second send failed: the first
\* message is on the queue and the exception came out.
C21_Witness ==
    /\ chunking_pc = "done"
    /\ chunk_event = NoEvent
    /\ Len(send_args.audio_segments) = MaxSegments
    /\ send_args.metadata = SpeakerMetadata
    /\ \A i \in 1..MaxSegments : ~Unbuildable(send_args.audio_segments[i])
    /\ sqs_fails_at = 2
    /\ Len(sqs_messages) = 1
    /\ send_outcome.kind = "raised"

----------------------------------------------------------------------------
(* chunking_handler.lambda_handler: properties.                            *)

\* needle in hay, for two texts
Contains(hay, needle) ==
    \E i \in 0..(Len(hay) - Len(needle)) :
        SubSeq(hay, i + 1, i + Len(needle)) = needle

HandlerReturned == chunking_pc = "done" /\ chunk_event.kind = "dict"

\* The message the tests look for when the load fails.
LoadFailureMessage ==
    <<"File ">> \o extract_s3_details(chunk_event).key
    \o (IF s3_object.state = "missing" THEN <<" not found">>
        ELSE <<" is not valid JSON">>)

\* C23: when the transcription object is missing or is not valid JSON,
\* lambda_handler sends nothing to SQS and returns statusCode 500 with a body
\* whose 'error' field contains the failure message; when the event has no
\* record with a bucket and a key it returns statusCode 200 with the message
\* 'No records to process', having read nothing from S3 and sent nothing.
C23_LoadFailureInErrorField ==
    HandlerReturned =>
        IF ~extract_s3_details(chunk_event).found
        THEN /\ chunking_response.statusCode = 200
             /\ chunking_response.body.message = Str(<<"No records to process">>)
             /\ s3_reads = 0
             /\ sqs_messages = <<>>
        ELSE s3_object.state \in {"missing", "invalid_json"} =>
                /\ sqs_messages = <<>>
                /\ chunking_response.statusCode = 500
                /\ Contains(chunking_response.body.error.s, LoadFailureMessage)

----------------------------------------------------------------------------
(* transcribe_handler.lambda_handler: properties.                          *)

TranscriptionSucceeded ==
    transcribe_pc = "done" /\ transcribe_response.statusCode = 200

\* The metadata of the source object, {} when it has none.
SourceMetadataOrEmpty ==
    IF source_metadata.t = "missing" THEN PyDict(<<>>) ELSE source_metadata

\* C24: on a successful transcription the handler has called
\* get_object_metadata(bucket, key) once, the body of the response has a
\* 'metadata' field with the metadata of the source object ({} when it has
\* none), and detail.records[0] has an equal 'metadata' field, which
\* extract_s3_details of the chunking handler then receives.
C24_MetadataPassedOn ==
    TranscriptionSucceeded =>
        /\ metadata_reads = <<<<transcribe_event.bucket, transcribe_event.key>>>>
        /\ transcribe_response.body.metadata = SourceMetadataOrEmpty
        /\ transcribe_response.records[1].metadata = SourceMetadataOrEmpty
        /\ extract_s3_details(EventDict(TRUE, transcribe_response.records)).metadata
             = SourceMetadataOrEmpty

----------------------------------------------------------------------------
(* question_handler.lambda_handler: properties.                            *)

QuestionAnswered == question_pc = "done"

\* The x-api-key header is there and is the expected key.
ApiKeyAccepted ==
    /\ question_event.api_key.t = "str"
    /\ question_event.api_key.s # <<>>
    /\ question_event.api_key = expected_api_key

\* The body is a JSON object with a question that is not blank and an email
\* of the form local@domain.tld.
RequestWellFormed ==
    /\ question_event.body = "object"
    /\ question_event.question = Str(<<"w", "h", "o", "?">>)
    /\ question_event.email \in {Str(ListedEmail), Str(UpperEmail)}

Called(name) == \E i \in 1..Len(question_calls) : question_calls[i] = name

\* C25: a missing or wrong x-api-key is answered with 401 before the body
\* is parsed or an email checked; with an accepted key, a missing body,
\* invalid JSON, or a missing or invalid question or email is answered with
\* 400; then an email that is not authorized with 401; then a failure while
\* embedding or querying with 500; OpenAI and Pinecone are called only when
\* the three checks passed, and only then is the answer 200.
C25_ChecksInOrder ==
    QuestionAnswered =>
        /\ ~ApiKeyAccepted =>
              /\ question_response.statusCode = 401
              /\ question_calls = <<"get_api_key">>
        /\ (ApiKeyAccepted /\ ~RequestWellFormed) =>
              /\ question_response.statusCode = 400
              /\ question_calls = <<"get_api_key", "parse_body">>
        /\ (ApiKeyAccepted /\ RequestWellFormed /\ ~email_authorized) =>
              /\ question_response.statusCode = 401
              /\ question_calls = <<"get_api_key", "parse_body", "is_authorized">>
        /\ (ApiKeyAccepted /\ RequestWellFormed /\ email_authorized) =>
              IF ~ai_keys_available \/ openai_fails \/ pinecone_fails
              THEN question_response.statusCode = 500
              ELSE /\ question_response.statusCode = 200
                   /\ question_calls = <<"get_api_key", "parse_body",
                                         "is_authorized", "openai", "pinecone">>
        /\ (Called("openai") \/ Called("pinecone")
            \/ question_response.statusCode = 200) =>
              ApiKeyAccepted /\ RequestWellFormed /\ email_authorized

\* A request with the key in place and a well-formed body was refused for
\* its email, after the parse and before any service call.
C25_Witness ==
    /\ QuestionAnswered
    /\ ApiKeyAccepted
    /\ RequestWellFormed
    /\ ~email_authorized
    /\ question_response.statusCode = 401
    /\ question_calls = <<"get_api_key", "parse_body", "is_authorized">>

----------------------------------------------------------------------------
(* AuthUtil: properties.                                                   *)

\* The step is one call of is_authorized.
IsAuthorizedStep == auth_checks' = auth_checks + 1

\* No load has succeeded yet, or the last that did is more than 300
\* seconds old.
DueForRefresh ==
    \/ ~auth_last_refresh.set
    \/ auth_now - auth_last_refresh.at > 300

SameIgnoringCase(a, b) ==
    /\ Len(a) = Len(b)
    /\ \A i \in 1..Len(a) : LowerOf(a[i]) = LowerOf(b[i])

\* The email is, case aside, the first field of a row of the file.
OnLoadedList(email, rows) ==
    \E i \in 1..Len(rows) :
        /\ rows[i] # <<>>
        /\ SameIgnoringCase(Strip(rows[i][1]), email)

RefreshOnlyWhenDue ==
    IsAuthorizedStep =>
        /\ (auth_attempts' = auth_attempts + 1) <=> DueForRefresh
        /\ auth_attempts' \in {auth_attempts, auth_attempts + 1}
        /\ auth_last_check'.load \in {"none", "failed"} =>
              /\ auth_emails' = auth_emails
              /\ auth_last_refresh' = auth_last_refresh
              /\ auth_loaded_rows' = auth_loaded_rows
        /\ auth_last_check'.load = "loaded" =>
              auth_last_refresh' = RefreshedAt(auth_now)
        /\ auth_last_check'.result =
              OnLoadedList(auth_last_check'.email, auth_loaded_rows')

\* C29: is_authorized attempts a load of the access list exactly when no
\* load has succeeded yet or the last successful one is more than 300
\* seconds old; a load that fails leaves the list and the last-refresh time
\* as they were, so the old list is used and the next call tries again; the
\* answer is whether the email is, case aside, on the list of the last
\* successful load.
C29_RefreshOnlyWhenStale == [][RefreshOnlyWhenDue]_vars

\* A call found the list more than 300 seconds old, the reload failed, and
\* the email, written in another case, was found on the old list.
C29_Witness ==
    /\ auth_last_check = Check(MixedEmail, TRUE, "failed")
    /\ auth_last_refresh.set
    /\ auth_now - auth_last_refresh.at > CacheTtl
    /\ auth_loaded_rows # <<>>

----------------------------------------------------------------------------
(* SecretsService: properties.                                             *)

\* The step is one call of get_secret.
GetSecretStep == secret_last'.n = secret_last.n + 1

SecretsManagerCalled == sm_calls' = sm_calls + 1

GetSecretContract ==
    /\ sm_calls' \in {sm_calls, sm_calls + 1}
    /\ ~GetSecretStep => sm_calls' = sm_calls
    /\ GetSecretStep =>
          /\ loaded_since => ~SecretsManagerCalled
          /\ (~loaded_since /\ secrets_cache[secret_last'.key].t = "missing")
                => SecretsManagerCalled
          /\ ~secret_last'.raised
          /\ secrets_cache'[secret_last'.key].t = "missing"
                => secret_last'.value = PyNone
          /\ secret_last'.value # PyNone
                => secret_last'.value = secrets_cache'[secret_last'.key]

\* C30: over any sequence of get_secret and invalidate_cache calls, once a
\* load has succeeded Secrets Manager is not called again until
\* invalidate_cache is called; a load that failed is not taken as made, so
\* the next get_secret for a key that is not cached calls Secrets Manager
\* again; get_secret never raises, and returns None when the key is found
\* neither in the cache nor in the environment.
C30_LoadedOncePerInvalidation == [][GetSecretContract]_vars

\* Two calls of get_secret each went to Secrets Manager, the first load
\* having failed, and the second came back with None.
C30_Witness ==
    /\ secret_last.n = 2
    /\ sm_calls = 2
    /\ ~loaded_since
    /\ secret_last.value = PyNone
    /\ secrets_cache = EmptyCache

============================================================================
